---- MODULE Spec2Model ----
(***************************************************************************)
(* Liquid-staking basket ledger (x/lst): the message server's five entry   *)
(* points, the keeper-level basket / conversion / pending-redemption       *)
(* operations, and the collaborators they call (token ledger, staking).    *)
(*                                                                         *)
(* Numbers.  math.Int is an unbounded integer and is modelled by an        *)
(* integer.  math.LegacyDec is a fixed-point decimal: an integer count of  *)
(* units of 10^-18.  The model keeps the representation and every rounding *)
(* rule of LegacyDec (Mul and Quo round half-to-even on the last digit,    *)
(* MulInt is exact, TruncateInt rounds toward zero) but carries PrecDigits *)
(* = 2 fractional digits instead of 18, so that products stay inside the   *)
(* model checker's integers.  A Dec value d is written as the integer      *)
(* d * OneDec.                                                             *)
(***************************************************************************)
EXTENDS Integers, Sequences, FiniteSets, TLC

\* ------------------------------------------------------------------ bounds
MaxOps == 4
MaxBaskets == 2
MaxTime == 1

\* ------------------------------------------------------- fixed-point Dec
OneDec == 100

Abs(x) == IF x < 0 THEN 0 - x ELSE x

Sign(x) == IF x < 0 THEN 0 - 1 ELSE 1

LegacyNewDecFromInt(i) == i * OneDec

\* chopPrecisionAndTruncate: drop the fractional digits, toward zero.
TruncateInt(d) == Sign(d) * (Abs(d) \div OneDec)

\* chopPrecisionAndRound of the quotient q with the fractional digits rem
\* (0 <= rem < OneDec): half-to-even.
RoundHalfEven(q, rem) ==
    IF 2 * rem < OneDec THEN q
    ELSE IF 2 * rem > OneDec THEN q + 1
    ELSE IF q % 2 = 0 THEN q ELSE q + 1

\* LegacyDec.Mul: the exact product has 2*PrecDigits digits; chop and round.
DecMul(a, b) ==
    LET p == Abs(a) * Abs(b)
    IN  Sign(a) * Sign(b) * RoundHalfEven(p \div OneDec, p % OneDec)

\* LegacyDec.MulInt: exact.
DecMulInt(d, i) == d * i

\* LegacyDec.Quo: (a * 10^(2*PrecDigits)) / b truncated, then chopped and
\* rounded.  Computed digit-block-wise: q is the quotient at Dec precision and
\* rem the next PrecDigits digits of the expansion.
DecQuo(a, b) ==
    LET n   == Abs(a) * OneDec
        q   == n \div Abs(b)
        r   == n % Abs(b)
        rem == (r * OneDec) \div Abs(b)
    IN  Sign(a) * Sign(b) * RoundHalfEven(q, rem)

\* Weights sum to 1 "allowing small tolerance": LegacyNewDecWithPrec(1, 10) is
\* 10^-10, the upper 10 of the 18 fractional digits; at the model's precision
\* the tolerance keeps the upper digit of the two.
WeightTolerance == OneDec \div 10

\* ----------------------------------------------------- the world outside
\* Accounts that sign messages.  "bad" is a string that is no bech32 address.
Users == {"u1", "u2"}

\* The account that signs the messages of the main specification.
Signers == {"u1"}

AccAddressFromBech32OK(a) == a \in Users

\* Validators known to the staking subsystem and their status; any other
\* well-formed validator address is not found.
ValidatorStatus == [v1 |-> "Bonded", v2 |-> "Bonded", v3 |-> "Bonded", v4 |-> "Unbonded"]

Vals == DOMAIN ValidatorStatus

ValAddrs == Vals \cup {"v9"}

ValAddressFromBech32OK(v) == v \in ValAddrs

\* sdk.ValAddress(str): the bytes of the string taken as an address, without
\* bech32 decoding.  "r1", "r2" and "r4" are the strings whose bytes are the
\* addresses of v1, v2 and v4; the bytes of a bech32 string are no
\* validator's address.
RawValAddrs == {"r1", "r2", "r4"}

\* The validator whose address the bytes of a raw string are ("r4": the
\* unbonded v4).
RawValidator == [r1 |-> "v1", r2 |-> "v2", r4 |-> "v4"]

GetValidatorByCastOK(str) == str \in RawValAddrs

BondDenom == "utia"

\* staking params: the unbonding time, in block-time units.
UnbondingPeriod == 2

ModuleName == "lst"

\* strconv.FormatUint(id, 10)
IdString == <<"1", "2", "3">>

FormatUint(n) == IdString[n]

BasketIds == {IdString[i] : i \in 1..Len(IdString)}

\* GetBasketTokenDenom: "bTIA-" + id
GetBasketTokenDenom(id) ==
    CASE id = "1" -> "bTIA-1" [] id = "2" -> "bTIA-2" [] id = "3" -> "bTIA-3"

\* GetBasketAccountAddress: address.Module("lst", "basket-" + id)
GetBasketAccountAddress(id) ==
    CASE id = "1" -> "cust-1" [] id = "2" -> "cust-2" [] id = "3" -> "cust-3"

CustodyAddrs == {GetBasketAccountAddress(id) : id \in BasketIds}

\* GetBasketModuleAccount: accountKeeper.GetModuleAddress("lst-basket-" + id).
\* The account keeper knows the module accounts registered when the
\* application was built; for any other name it returns the nil address.
NilAddress == "nil"

GetBasketModuleAccount(id) == NilAddress

Accounts == Users \cup {ModuleName} \cup CustodyAddrs

Denoms == {BondDenom} \cup {GetBasketTokenDenom(id) : id \in BasketIds}

Delegators == Users \cup CustodyAddrs \cup {NilAddress}

\* What each user holds before the first message: liquid staking asset and a
\* direct delegation to validator v1.
InitLiquid == 1504

InitDelegated == 1501

\* --------------------------------------------------------------- inputs
Amounts == {1, 3, 1500}

VW(a, w) == [ValidatorAddress |-> a, Weight |-> w]

\* The metadata a creation carries (name, symbol, description).
MetadataInput == [Name |-> "basket", Symbol |-> "bsk", Description |-> ""]

ValidatorSetInputs ==
    { <<VW("v1", OneDec)>>,
      <<VW("v1", OneDec \div 2), VW("v2", OneDec \div 2)>>,
      <<VW("v2", (7 * OneDec) \div 10), VW("v3", (3 * OneDec) \div 10)>>,
      <<VW("v1", OneDec \div 2), VW("v4", OneDec \div 2)>>,
      <<VW("v9", OneDec)>> }

\* ---------------------------------------------------------------- state
VARIABLES
    baskets,          \* store 0x10: basket id -> Basket
    basketByDenom,    \* store 0x11: denom -> basket id
    nextBasketID,     \* store 0x30: 0 stands for "key not set"
    pending,          \* store 0x20: id -> PendingRedemption
    redByUser,        \* store 0x21: set of <<delegator, id>>
    redByBasket,      \* store 0x22: set of <<basket id, id>>
    nextPendingID,    \* store 0x31: 0 stands for "key not set"
    bal,              \* token ledger: account -> denom -> amount
    deleg,            \* staking: delegator -> validator -> bonded amount
    ubd,              \* staking: delegator -> amount in unbonding
    now,              \* block time
    last,             \* the last operation, its inputs and its result
    allocBasketIDs,   \* history: the basket ids handed out, in order
    allocPendingIDs,  \* history: the pending-redemption ids handed out, in order
    nops              \* operations executed so far

ledgerVars == <<baskets, basketByDenom, nextBasketID, pending, redByUser, redByBasket,
                nextPendingID, bal, deleg, ubd>>

vars == <<baskets, basketByDenom, nextBasketID, pending, redByUser, redByBasket,
          nextPendingID, bal, deleg, ubd, now, last, allocBasketIDs, allocPendingIDs, nops>>

\* The persisted ledger and the collaborators' state as one value: what an
\* operation reads and what it has written when it returns.
Ledger ==
    [baskets |-> baskets, basketByDenom |-> basketByDenom, nextBasketID |-> nextBasketID,
     pending |-> pending, redByUser |-> redByUser, redByBasket |-> redByBasket,
     nextPendingID |-> nextPendingID, bal |-> bal, deleg |-> deleg, ubd |-> ubd]

EmptyMap == [x \in {} |-> 0]

InitLedger ==
    [baskets |-> EmptyMap, basketByDenom |-> EmptyMap, nextBasketID |-> 0,
     pending |-> EmptyMap, redByUser |-> {}, redByBasket |-> {},
     nextPendingID |-> 0,
     bal |-> [a \in Accounts |-> [d \in Denoms |->
                 IF a \in Users /\ d = BondDenom THEN InitLiquid ELSE 0]],
     deleg |-> [a \in Delegators |-> [v \in Vals |->
                 IF a \in Users /\ v = "v1" THEN InitDelegated ELSE 0]],
     ubd |-> [a \in Delegators |-> 0]]

\* ------------------------------------------------- token ledger (bank)
\* Every call returns [ok, s]: whether it succeeded and the ledger after it.
\* sdk.NewCoins drops a zero coin, so a transfer, mint or burn of 0 succeeds
\* and changes nothing.
SendCoins(s, from, to, d, amt) ==
    IF amt = 0 THEN [ok |-> TRUE, s |-> s]
    ELSE IF amt < 0 \/ s.bal[from][d] < amt THEN [ok |-> FALSE, s |-> s]
    ELSE [ok |-> TRUE,
          s |-> [s EXCEPT !.bal[from][d] = @ - amt, !.bal[to][d] = @ + amt]]

MintCoins(s, d, amt) ==
    IF amt < 0 THEN [ok |-> FALSE, s |-> s]
    ELSE [ok |-> TRUE, s |-> [s EXCEPT !.bal[ModuleName][d] = @ + amt]]

BurnCoins(s, d, amt) ==
    IF amt < 0 \/ s.bal[ModuleName][d] < amt THEN [ok |-> FALSE, s |-> s]
    ELSE [ok |-> TRUE, s |-> [s EXCEPT !.bal[ModuleName][d] = @ - amt]]

\* Total supply of a denom: the sum of all balances.
RECURSIVE SumBal(_, _, _)
SumBal(b, d, as) ==
    IF as = {} THEN 0
    ELSE LET a == CHOOSE x \in as : TRUE
         IN  b[a][d] + SumBal(b, d, as \ {a})

Supply(b, d) == SumBal(b, d, Accounts)

\* ------------------------------------------------------------- staking
GetValidatorOK(v) == v \in Vals

\* Delegate(..., subtractAccount = true): the delegator's liquid coins go to
\* the bonded pool and its delegation grows by the same amount (no slashing:
\* one share is one token).
Delegate(s, del, amt, v) ==
    IF ~GetValidatorOK(v) \/ s.bal[del][BondDenom] < amt THEN [ok |-> FALSE, s |-> s]
    ELSE [ok |-> TRUE,
          s |-> [s EXCEPT !.bal[del][BondDenom] = @ - amt, !.deleg[del][v] = @ + amt]]

\* Undelegate: fails when the delegator has no such delegation or fewer
\* shares than asked; the tokens leave the delegation and start unbonding.
Undelegate(s, del, v, amt) ==
    IF ~GetValidatorOK(v) \/ s.deleg[del][v] < amt THEN [ok |-> FALSE, s |-> s]
    ELSE [ok |-> TRUE,
          s |-> [s EXCEPT !.deleg[del][v] = @ - amt, !.ubd[del] = @ + amt]]

\* BeginRedelegation(delAddr, valSrc, valDst, shares): the delegation of ONE
\* delegator moves from valSrc to valDst; redelegating to the same validator
\* and redelegating more than is delegated are rejected.
BeginRedelegation(s, del, src, dst, amt) ==
    IF ~GetValidatorOK(src) \/ ~GetValidatorOK(dst) \/ src = dst \/ s.deleg[del][src] < amt
    THEN [ok |-> FALSE, s |-> s]
    ELSE [ok |-> TRUE,
          s |-> [s EXCEPT !.deleg[del][src] = @ - amt, !.deleg[del][dst] = @ + amt]]

\* --------------------------------------------------------- basket ledger
Found(s, id) == id \in DOMAIN s.baskets

\* Faulty variant: the write replaces the whole basket store by the one
\* record.
SetBasketAlone(s, b) == [s EXCEPT !.baskets = (b.Id :> b)]

SetBasket(s, b) == [s EXCEPT !.baskets = (b.Id :> b) @@ @]

SetBasketByDenom(s, denom, id) == [s EXCEPT !.basketByDenom = (denom :> id) @@ @]

\* GetNextBasketID: returns the next id AND stores next id + 1.
NextBasketIDValue(s) == IF s.nextBasketID = 0 THEN 1 ELSE s.nextBasketID

\* Faulty variant: the id is read and the counter is left as it is.
GetNextBasketIDNoAdvance(s) == [id |-> NextBasketIDValue(s), s |-> s]

GetNextBasketID(s) ==
    [id |-> NextBasketIDValue(s), s |-> [s EXCEPT !.nextBasketID = NextBasketIDValue(s) + 1]]

SetNextBasketID(s, n) == [s EXCEPT !.nextBasketID = n]

\* GetNextPendingID: the same for pending redemptions.
NextPendingIDValue(s) == IF s.nextPendingID = 0 THEN 1 ELSE s.nextPendingID

\* Faulty variant: the id is read and the counter is left as it is.
GetNextPendingIDNoAdvance(s) == [id |-> NextPendingIDValue(s), s |-> s]

GetNextPendingID(s) ==
    [id |-> NextPendingIDValue(s), s |-> [s EXCEPT !.nextPendingID = NextPendingIDValue(s) + 1]]

\* Faulty variant: one basket token is always worth one staked token.
GetBasketExchangeRateAlwaysOne(b) == OneDec

\* GetBasketExchangeRate: 1 when no shares exist, else staked / shares.
GetBasketExchangeRate(b) ==
    IF b.TotalShares = 0 THEN OneDec
    ELSE DecQuo(LegacyNewDecFromInt(b.TotalStakedTokens), b.TotalShares)

\* ------------------------------------------------------ pending queue
SetPendingRedemption(s, r) ==
    [s EXCEPT !.pending = (r.Id :> r) @@ @,
              !.redByUser = @ \cup {<<r.Delegator, r.Id>>},
              !.redByBasket = @ \cup {<<r.BasketId, r.Id>>}]

\* Faulty variant: the primary record is deleted and the two index entries
\* are left behind.
DeletePendingRedemptionKeepIndexes(s, r) ==
    [s EXCEPT !.pending = [i \in (DOMAIN @) \ {r.Id} |-> @[i]]]

DeletePendingRedemption(s, r) ==
    [s EXCEPT !.pending = [i \in (DOMAIN @) \ {r.Id} |-> @[i]],
              !.redByUser = @ \ {<<r.Delegator, r.Id>>},
              !.redByBasket = @ \ {<<r.BasketId, r.Id>>}]

\* GetAllPendingRedemptions: the records under the primary prefix in key
\* order, which is ascending id (big-endian ids).
RECURSIVE PendingInKeyOrder(_, _)
PendingInKeyOrder(s, ids) ==
    IF ids = {} THEN << >>
    ELSE LET first == CHOOSE i \in ids : \A j \in ids : i <= j
         IN  <<s.pending[first]>> \o PendingInKeyOrder(s, ids \ {first})

GetAllPendingRedemptions(s) == PendingInKeyOrder(s, DOMAIN s.pending)

\* Faulty variant: a record whose completion time is the block time is not
\* yet listed.
GetMaturePendingRedemptionsStrict(s, currentTime) ==
    LET Mature(r) == r.CompletionTime < currentTime
    IN  SelectSeq(GetAllPendingRedemptions(s), Mature)

\* GetMaturePendingRedemptions at block time currentTime:
\* CompletionTime.Before(currentTime) || CompletionTime.Equal(currentTime).
GetMaturePendingRedemptions(s, currentTime) ==
    LET Mature(r) == r.CompletionTime < currentTime \/ r.CompletionTime = currentTime
    IN  SelectSeq(GetAllPendingRedemptions(s), Mature)

\* Faulty variant: the record matures at once, the unbonding period forgotten.
CreatePendingRedemptionNoDelay(s, t, basketID, delegator, sharesBurned, tokensToReceive, completionTime) ==
    LET g == GetNextPendingID(s)
        r == [Id |-> g.id, BasketId |-> basketID, Delegator |-> delegator,
              SharesBurned |-> sharesBurned, TokensToReceive |-> tokensToReceive,
              CompletionTime |-> t, CreationTime |-> t]
    IN  [id |-> g.id, s |-> SetPendingRedemption(g.s, r)]

\* CreatePendingRedemption: allocates the id, stamps the block time.
CreatePendingRedemption(s, t, basketID, delegator, sharesBurned, tokensToReceive, completionTime) ==
    LET g == GetNextPendingID(s)
        r == [Id |-> g.id, BasketId |-> basketID, Delegator |-> delegator,
              SharesBurned |-> sharesBurned, TokensToReceive |-> tokensToReceive,
              CompletionTime |-> completionTime, CreationTime |-> t]
    IN  [id |-> g.id, s |-> SetPendingRedemption(g.s, r)]

\* ------------------------------------------------------ message server
\* A handler returns [err, s, out]: err = "" on success, s the ledger as the
\* handler left it when it returned (on an error: with whatever it had
\* already written), out the values of the response.
NoOut == [id |-> 0, shares |-> 0, tokens |-> 0]

Fail(e, s) == [err |-> e, s |-> s, out |-> NoOut]

\* The validator loop of msgServer.CreateBasket over validators i..Len(vs):
\* the first error it meets, "" when there is none.
RECURSIVE CheckValidatorsExistAndBonded(_, _)
CheckValidatorsExistAndBonded(vs, i) ==
    IF i > Len(vs) THEN ""
    ELSE IF ~ValAddressFromBech32OK(vs[i].ValidatorAddress) THEN "ErrInvalidValidatorAddr"
    ELSE IF ~GetValidatorOK(vs[i].ValidatorAddress) THEN "ErrValidatorNotFound"
    ELSE IF ValidatorStatus[vs[i].ValidatorAddress] # "Bonded" THEN "ErrInvalidValidatorSet"
    ELSE CheckValidatorsExistAndBonded(vs, i + 1)

\* msgServer.CreateBasket
MsgCreateBasket(s, t, msg) ==
    IF ~AccAddressFromBech32OK(msg.Creator) THEN Fail("ErrInvalidCreator", s)
    ELSE IF CheckValidatorsExistAndBonded(msg.Validators, 1) # ""
    THEN Fail(CheckValidatorsExistAndBonded(msg.Validators, 1), s)
    ELSE
      LET g        == GetNextBasketID(s)
          basketID == FormatUint(g.id)
          basket   == [Id |-> basketID, Denom |-> GetBasketTokenDenom(basketID),
                       Validators |-> msg.Validators, TotalShares |-> 0,
                       TotalStakedTokens |-> 0, Creator |-> msg.Creator,
                       CreationTime |-> t, Metadata |-> msg.Metadata]
          s1       == SetBasket(g.s, basket)
          s2       == SetNextBasketID(s1, g.id + 1)
      IN  [err |-> "", s |-> s2, out |-> [NoOut EXCEPT !.id = g.id]]

\* LegacyDec.Quo panics on a zero divisor: dividing by the rate of a basket
\* that has shares and no staked tokens.  The panic ends the handler; the
\* host reports it as the message's error.
RateIsZero(basket) == GetBasketExchangeRate(basket) = 0

\* Faulty variant: pro rata of the staked tokens, 1:1 only for an empty stake.
calculateBasketTokensToMintProRata(basket, stakingAmount) ==
    IF basket.TotalStakedTokens = 0 THEN stakingAmount
    ELSE (TruncateInt(basket.TotalShares) * stakingAmount) \div basket.TotalStakedTokens

\* Faulty variant: the quotient rounded to the nearest integer, not truncated.
calculateBasketTokensToMintRounded(basket, stakingAmount) ==
    IF basket.TotalShares = 0 THEN stakingAmount
    ELSE TruncateInt(DecQuo(LegacyNewDecFromInt(stakingAmount), GetBasketExchangeRate(basket))
                     + OneDec \div 2)

\* calculateBasketTokensToMint
calculateBasketTokensToMint(basket, stakingAmount) ==
    IF basket.TotalShares = 0 THEN stakingAmount
    ELSE TruncateInt(DecQuo(LegacyNewDecFromInt(stakingAmount), GetBasketExchangeRate(basket)))

\* calculateUnderlyingTokensToRedeem
calculateUnderlyingTokensToRedeem(basket, basketTokenAmount) ==
    TruncateInt(DecMul(LegacyNewDecFromInt(basketTokenAmount), GetBasketExchangeRate(basket)))

\* The amount a validator of weight w gets of a total: floor(w * total).
WeightShare(w, total) == TruncateInt(DecMulInt(w, total))

\* The delegation loop of MintBasketToken over validators i..Len(vs).
RECURSIVE MintDelegateLoop(_, _, _, _, _)
MintDelegateLoop(s, vs, i, amount, basketAccountAddr) ==
    IF i > Len(vs) THEN [ok |-> TRUE, s |-> s]
    ELSE LET delegationAmount == WeightShare(vs[i].Weight, amount)
         IN  IF delegationAmount = 0
             THEN MintDelegateLoop(s, vs, i + 1, amount, basketAccountAddr)
             ELSE LET snd == SendCoins(s, ModuleName, basketAccountAddr, BondDenom,
                                       delegationAmount)
                  IN  IF ~snd.ok THEN snd
                      ELSE LET dlg == Delegate(snd.s, basketAccountAddr, delegationAmount,
                                               vs[i].ValidatorAddress)
                           IN  IF ~dlg.ok THEN dlg
                               ELSE MintDelegateLoop(dlg.s, vs, i + 1, amount,
                                                     basketAccountAddr)

\* msgServer.MintBasketToken
MsgMintBasketToken(s, msg) ==
    IF ~AccAddressFromBech32OK(msg.Minter) THEN Fail("ErrInvalidMinter", s)
    ELSE IF ~Found(s, msg.BasketId) THEN Fail("ErrBasketNotFound", s)
    ELSE IF msg.Denom # BondDenom THEN Fail("ErrInvalidStakingDenom", s)
    ELSE IF RateIsZero(s.baskets[msg.BasketId]) THEN Fail("panic: division by zero", s)
    ELSE
      LET basket            == s.baskets[msg.BasketId]
          basketTokenAmount == calculateBasketTokensToMint(basket, msg.Amount)
          snd               == SendCoins(s, msg.Minter, ModuleName, BondDenom, msg.Amount)
      IN  IF ~snd.ok THEN Fail("bank: insufficient funds", snd.s)
          ELSE
            LET lp == MintDelegateLoop(snd.s, basket.Validators, 1, msg.Amount,
                                       GetBasketAccountAddress(msg.BasketId))
            IN  IF ~lp.ok THEN Fail("staking: delegate", lp.s)
                ELSE
                  LET basketDenom == GetBasketTokenDenom(msg.BasketId)
                      mnt == MintCoins(lp.s, basketDenom, basketTokenAmount)
                      out == SendCoins(mnt.s, ModuleName, msg.Minter, basketDenom,
                                       basketTokenAmount)
                      nb  == [basket EXCEPT
                                !.TotalShares = @ + LegacyNewDecFromInt(basketTokenAmount),
                                !.TotalStakedTokens = @ + msg.Amount]
                  IN  IF ~mnt.ok THEN Fail("bank: mint", mnt.s)
                      ELSE IF ~out.ok THEN Fail("bank: send", out.s)
                      ELSE [err |-> "", s |-> SetBasket(out.s, nb),
                            out |-> [NoOut EXCEPT !.shares = basketTokenAmount]]

\* Faulty variant of the unbonding loop: only the first validator of the
\* basket is unbonded.
RedeemUndelegateLoopFirstOnly(s, vs, i, underlyingAmount, basketAccountAddr, total) ==
    IF Len(vs) = 0 \/ WeightShare(vs[1].Weight, underlyingAmount) = 0
    THEN [ok |-> TRUE, s |-> s, total |-> total]
    ELSE LET unbondingAmount == WeightShare(vs[1].Weight, underlyingAmount)
             und == Undelegate(s, basketAccountAddr, vs[1].ValidatorAddress, unbondingAmount)
         IN  [ok |-> und.ok, s |-> und.s,
              total |-> IF und.ok THEN total + unbondingAmount ELSE total]

\* The unbonding loop of RedeemBasketToken over validators i..Len(vs); total
\* is totalUnbondingAmount so far.
RECURSIVE RedeemUndelegateLoop(_, _, _, _, _, _)
RedeemUndelegateLoop(s, vs, i, underlyingAmount, basketAccountAddr, total) ==
    IF i > Len(vs) THEN [ok |-> TRUE, s |-> s, total |-> total]
    ELSE LET unbondingAmount == WeightShare(vs[i].Weight, underlyingAmount)
         IN  IF unbondingAmount = 0
             THEN RedeemUndelegateLoop(s, vs, i + 1, underlyingAmount, basketAccountAddr, total)
             ELSE LET und == Undelegate(s, basketAccountAddr, vs[i].ValidatorAddress,
                                        unbondingAmount)
                  IN  IF ~und.ok THEN [ok |-> FALSE, s |-> und.s, total |-> total]
                      ELSE RedeemUndelegateLoop(und.s, vs, i + 1, underlyingAmount,
                                                basketAccountAddr, total + unbondingAmount)

\* msgServer.RedeemBasketToken at block time t
MsgRedeemBasketToken(s, t, msg) ==
    IF ~AccAddressFromBech32OK(msg.Redeemer) THEN Fail("ErrInvalidRedeemer", s)
    ELSE IF ~Found(s, msg.BasketId) THEN Fail("ErrBasketNotFound", s)
    ELSE IF msg.Denom # GetBasketTokenDenom(msg.BasketId) THEN Fail("ErrInvalidBasketDenom", s)
    ELSE
      LET basket           == s.baskets[msg.BasketId]
          underlyingAmount == calculateUnderlyingTokensToRedeem(basket, msg.Amount)
          snd              == SendCoins(s, msg.Redeemer, ModuleName, msg.Denom, msg.Amount)
          brn              == BurnCoins(snd.s, msg.Denom, msg.Amount)
      IN  IF ~snd.ok THEN Fail("bank: insufficient funds", snd.s)
          ELSE IF ~brn.ok THEN Fail("bank: burn", brn.s)
          ELSE
            LET lp == RedeemUndelegateLoop(brn.s, basket.Validators, 1, underlyingAmount,
                                           GetBasketAccountAddress(msg.BasketId), 0)
            IN  IF ~lp.ok THEN Fail("staking: undelegate", lp.s)
                ELSE
                  LET completionTime == t + UnbondingPeriod
                      cr == CreatePendingRedemption(lp.s, t, msg.BasketId, msg.Redeemer,
                                LegacyNewDecFromInt(msg.Amount), lp.total, completionTime)
                      nb == [basket EXCEPT
                               !.TotalShares = @ - LegacyNewDecFromInt(msg.Amount),
                               !.TotalStakedTokens = @ - lp.total]
                  IN  [err |-> "", s |-> SetBasket(cr.s, nb),
                       out |-> [id |-> cr.id, shares |-> msg.Amount, tokens |-> lp.total]]

\* redelegateToBasket: from one validator of the delegator to the basket's
\* validators, proportionally (validators i..Len(vs)).  toBasketAcc is a
\* parameter of the function that no statement of it uses.
RECURSIVE redelegateToBasket(_, _, _, _, _, _, _)
redelegateToBasket(s, delegator, fromValidator, toBasketAcc, vs, i, amount) ==
    IF i > Len(vs) THEN [ok |-> TRUE, s |-> s]
    ELSE IF ~ValAddressFromBech32OK(vs[i].ValidatorAddress) THEN [ok |-> FALSE, s |-> s]
    ELSE LET amountToThis == WeightShare(vs[i].Weight, amount)
         IN  IF amountToThis = 0
             THEN redelegateToBasket(s, delegator, fromValidator, toBasketAcc, vs, i + 1, amount)
             ELSE LET red == BeginRedelegation(s, delegator, fromValidator,
                                               vs[i].ValidatorAddress, amountToThis)
                  IN  IF ~red.ok THEN red
                      ELSE redelegateToBasket(red.s, delegator, fromValidator, toBasketAcc,
                                              vs, i + 1, amount)

\* Faulty variant of the inner loop: the whole amount goes to the first
\* destination validator whose split is not zero, the others get nothing.
redelegateInnerFirstOnly(s, fromBasketAcc, fromValAddr, tvs, j, amountFromThis) ==
    IF j > Len(tvs) THEN [ok |-> TRUE, s |-> s]
    ELSE IF ~ValAddressFromBech32OK(tvs[j].ValidatorAddress) THEN [ok |-> FALSE, s |-> s]
    ELSE IF WeightShare(tvs[j].Weight, amountFromThis) = 0 THEN [ok |-> TRUE, s |-> s]
    ELSE BeginRedelegation(s, fromBasketAcc, fromValAddr, tvs[j].ValidatorAddress,
                           WeightShare(tvs[j].Weight, amountFromThis))

\* The inner loop of redelegateProportionally: from one source validator to
\* the destination validators j..Len(tvs).
RECURSIVE redelegateInner(_, _, _, _, _, _)
redelegateInner(s, fromBasketAcc, fromValAddr, tvs, j, amountFromThis) ==
    IF j > Len(tvs) THEN [ok |-> TRUE, s |-> s]
    ELSE IF ~ValAddressFromBech32OK(tvs[j].ValidatorAddress) THEN [ok |-> FALSE, s |-> s]
    ELSE LET amountToThis == WeightShare(tvs[j].Weight, amountFromThis)
         IN  IF amountToThis = 0
             THEN redelegateInner(s, fromBasketAcc, fromValAddr, tvs, j + 1, amountFromThis)
             ELSE LET red == BeginRedelegation(s, fromBasketAcc, fromValAddr,
                                               tvs[j].ValidatorAddress, amountToThis)
                  IN  IF ~red.ok THEN red
                      ELSE redelegateInner(red.s, fromBasketAcc, fromValAddr, tvs, j + 1,
                                           amountFromThis)

\* redelegateProportionally: source validators i..Len(fvs).  toBasketAcc is a
\* parameter of the function that no statement of it uses.
RECURSIVE redelegateProportionally(_, _, _, _, _, _, _)
redelegateProportionally(s, fromBasketAcc, toBasketAcc, fvs, i, tvs, totalAmount) ==
    IF i > Len(fvs) THEN [ok |-> TRUE, s |-> s]
    ELSE IF ~ValAddressFromBech32OK(fvs[i].ValidatorAddress) THEN [ok |-> FALSE, s |-> s]
    ELSE LET amountFromThis == WeightShare(fvs[i].Weight, totalAmount)
         IN  IF amountFromThis = 0
             THEN redelegateProportionally(s, fromBasketAcc, toBasketAcc, fvs, i + 1, tvs,
                                           totalAmount)
             ELSE LET inner == redelegateInner(s, fromBasketAcc, fvs[i].ValidatorAddress,
                                               tvs, 1, amountFromThis)
                  IN  IF ~inner.ok THEN inner
                      ELSE redelegateProportionally(inner.s, fromBasketAcc, toBasketAcc, fvs,
                                                    i + 1, tvs, totalAmount)

\* The conversion routine msgServer.ConvertDelegation calls: redelegate
\* floor(w * amount) to each basket validator, return floor(amount / rate)
\* with the rate of the stored aggregates.  It moves the stake through
\* redelegateToBasket.
ConvertDelegationToBasketAmount(s, delegator, valAddr, basketAccountAddr, amount, basket) ==
    LET red == redelegateToBasket(s, delegator, valAddr, basketAccountAddr,
                                  basket.Validators, 1, amount)
    IN  [ok |-> red.ok /\ ~RateIsZero(basket), s |-> red.s,
         amount |-> IF RateIsZero(basket) THEN 0
                    ELSE TruncateInt(DecQuo(LegacyNewDecFromInt(amount),
                                            GetBasketExchangeRate(basket)))]

\* msgServer.ConvertDelegation
MsgConvertDelegation(s, msg) ==
    IF ~AccAddressFromBech32OK(msg.Delegator) THEN Fail("ErrInvalidDelegator", s)
    ELSE IF ~ValAddressFromBech32OK(msg.ValidatorAddress) THEN Fail("ErrInvalidValidatorAddr", s)
    ELSE IF ~Found(s, msg.BasketId) THEN Fail("ErrBasketNotFound", s)
    ELSE IF msg.Denom # BondDenom THEN Fail("ErrInvalidStakingDenom", s)
    ELSE
      LET basket == s.baskets[msg.BasketId]
          cv == ConvertDelegationToBasketAmount(s, msg.Delegator, msg.ValidatorAddress,
                    GetBasketAccountAddress(msg.BasketId), msg.Amount, basket)
      IN  IF ~cv.ok THEN Fail("ErrRedelegationFailed", cv.s)
          ELSE
            LET basketDenom == GetBasketTokenDenom(msg.BasketId)
                mnt == MintCoins(cv.s, basketDenom, cv.amount)
                out == SendCoins(mnt.s, ModuleName, msg.Delegator, basketDenom, cv.amount)
                nb  == [basket EXCEPT
                          !.TotalShares = @ + LegacyNewDecFromInt(cv.amount),
                          !.TotalStakedTokens = @ + msg.Amount]
            IN  IF ~mnt.ok THEN Fail("bank: mint", mnt.s)
                ELSE IF ~out.ok THEN Fail("bank: send", out.s)
                ELSE [err |-> "", s |-> SetBasket(out.s, nb),
                      out |-> [NoOut EXCEPT !.shares = cv.amount]]

\* The conversion routine msgServer.ConvertBasket calls: underlying =
\* floor(amount * rate(source)), nested proportional redelegation of it,
\* return floor(underlying / rate(target)), both rates from the stored
\* aggregates.  It moves the stake through redelegateProportionally.
ConvertBasketToBasketAmount(s, fromBasketAccountAddr, toBasketAccountAddr, amount, fromBasket, toBasket) ==
    LET underlying == TruncateInt(DecMul(LegacyNewDecFromInt(amount),
                                         GetBasketExchangeRate(fromBasket)))
        red == redelegateProportionally(s, fromBasketAccountAddr, toBasketAccountAddr,
                   fromBasket.Validators, 1, toBasket.Validators, underlying)
    IN  [ok |-> red.ok /\ ~RateIsZero(toBasket), s |-> red.s, underlying |-> underlying,
         amount |-> IF RateIsZero(toBasket) THEN 0
                    ELSE TruncateInt(DecQuo(LegacyNewDecFromInt(underlying),
                                            GetBasketExchangeRate(toBasket)))]

\* msgServer.ConvertBasket
MsgConvertBasket(s, msg) ==
    IF ~AccAddressFromBech32OK(msg.Converter) THEN Fail("ErrInvalidConverter", s)
    ELSE IF ~Found(s, msg.FromBasketId) THEN Fail("ErrBasketNotFound", s)
    ELSE IF ~Found(s, msg.ToBasketId) THEN Fail("ErrBasketNotFound", s)
    ELSE IF msg.Denom # GetBasketTokenDenom(msg.FromBasketId)
    THEN Fail("ErrInvalidBasketDenom", s)
    ELSE
      LET fromBasket == s.baskets[msg.FromBasketId]
          toBasket   == s.baskets[msg.ToBasketId]
          snd == SendCoins(s, msg.Converter, ModuleName, msg.Denom, msg.Amount)
          brn == BurnCoins(snd.s, msg.Denom, msg.Amount)
      IN  IF ~snd.ok THEN Fail("bank: insufficient funds", snd.s)
          ELSE IF ~brn.ok THEN Fail("bank: burn", brn.s)
          ELSE
            LET cv == ConvertBasketToBasketAmount(brn.s,
                          GetBasketAccountAddress(msg.FromBasketId),
                          GetBasketAccountAddress(msg.ToBasketId),
                          msg.Amount, fromBasket, toBasket)
            IN  IF ~cv.ok THEN Fail("ErrRedelegationFailed", cv.s)
                ELSE
                  LET targetDenom == GetBasketTokenDenom(msg.ToBasketId)
                      mnt == MintCoins(cv.s, targetDenom, cv.amount)
                      out == SendCoins(mnt.s, ModuleName, msg.Converter, targetDenom,
                                       cv.amount)
                      nf  == [fromBasket EXCEPT
                                !.TotalShares = @ - LegacyNewDecFromInt(msg.Amount)]
                      nt  == [toBasket EXCEPT
                                !.TotalShares = @ + LegacyNewDecFromInt(cv.amount)]
                  IN  IF ~mnt.ok THEN Fail("bank: mint", mnt.s)
                      ELSE IF ~out.ok THEN Fail("bank: send", out.s)
                      ELSE [err |-> "", s |-> SetBasket(SetBasket(out.s, nf), nt),
                            out |-> [id |-> 0, shares |-> cv.amount,
                                     tokens |-> cv.underlying]]

\* ------------------------------------------------- keeper-level entry
\* The validator loop of Keeper.CreateBasket over validators i..Len(vs).
RECURSIVE KeeperValidatorsFound(_, _)
KeeperValidatorsFound(vs, i) ==
    IF i > Len(vs) THEN TRUE
    ELSE GetValidatorByCastOK(vs[i].ValidatorAddress) /\ KeeperValidatorsFound(vs, i + 1)

RECURSIVE TotalWeight(_, _)
TotalWeight(vs, i) == IF i > Len(vs) THEN 0 ELSE vs[i].Weight + TotalWeight(vs, i + 1)

\* Keeper.CreateBasket: the id is taken (and the counter advanced) before
\* the validators and the weights are looked at.
KeeperCreateBasket(s, t, creator, validators, metadata) ==
    LET g        == GetNextBasketID(s)
        basketID == FormatUint(g.id)
        denom    == GetBasketTokenDenom(basketID)
    IN  IF ~KeeperValidatorsFound(validators, 1) THEN Fail("validator not found", g.s)
        ELSE IF TotalWeight(validators, 1) # OneDec
        THEN Fail("validator weights must sum to 1.0", g.s)
        ELSE
          LET basket == [Id |-> basketID, Denom |-> denom, Validators |-> validators,
                         TotalShares |-> 0, TotalStakedTokens |-> 0, Creator |-> creator,
                         CreationTime |-> t, Metadata |-> metadata]
          IN  [err |-> "", s |-> SetBasketByDenom(SetBasket(g.s, basket), denom, basketID),
               out |-> [NoOut EXCEPT !.id = g.id]]

\* Keeper.ConvertBasketToBasket: sharesToConvert is a Dec.
KeeperConvertBasketToBasket(s, delegator, fromBasketID, toBasketID, sharesToConvert) ==
    IF ~Found(s, fromBasketID) \/ ~Found(s, toBasketID) THEN Fail("ErrBasketNotFound", s)
    ELSE
      LET fromBasket == s.baskets[fromBasketID]
          toBasket   == s.baskets[toBasketID]
          tokensToTransfer == TruncateInt(DecMul(sharesToConvert,
                                                 GetBasketExchangeRate(fromBasket)))
          brn == BurnCoins(s, fromBasket.Denom, TruncateInt(sharesToConvert))
      IN  IF ~brn.ok THEN Fail("bank: burn", brn.s)
          ELSE
            LET red == redelegateProportionally(brn.s, GetBasketModuleAccount(fromBasketID),
                           GetBasketModuleAccount(toBasketID), fromBasket.Validators, 1,
                           toBasket.Validators, tokensToTransfer)
            IN  IF ~red.ok THEN Fail("staking: redelegate", red.s)
                ELSE
                  LET nf == [fromBasket EXCEPT
                               !.TotalShares = @ - sharesToConvert,
                               !.TotalStakedTokens = @ - tokensToTransfer]
                      s1 == SetBasket(red.s, nf)
                  IN  IF RateIsZero(toBasket) THEN Fail("panic: division by zero", s1)
                      ELSE
                        LET newShares == DecQuo(LegacyNewDecFromInt(tokensToTransfer),
                                                GetBasketExchangeRate(toBasket))
                            mnt == MintCoins(s1, toBasket.Denom, TruncateInt(newShares))
                            out == SendCoins(mnt.s, ModuleName, delegator, toBasket.Denom,
                                             TruncateInt(newShares))
                            nt  == [toBasket EXCEPT
                                      !.TotalShares = @ + newShares,
                                      !.TotalStakedTokens = @ + tokensToTransfer]
                        IN  IF ~mnt.ok THEN Fail("bank: mint", mnt.s)
                            ELSE IF ~out.ok THEN Fail("bank: send", out.s)
                            ELSE [err |-> "", s |-> SetBasket(out.s, nt),
                                  out |-> [id |-> 0, shares |-> newShares,
                                           tokens |-> tokensToTransfer]]

\* Keeper.ConvertDelegationToBasket
KeeperConvertDelegationToBasket(s, delegator, validatorAddr, amount, basketID) ==
    IF ~Found(s, basketID) THEN Fail("ErrBasketNotFound", s)
    ELSE
      LET basket == s.baskets[basketID]
          red == redelegateToBasket(s, delegator, validatorAddr,
                                    GetBasketModuleAccount(basketID), basket.Validators, 1,
                                    amount)
      IN  IF ~red.ok THEN Fail("staking: redelegate", red.s)
          ELSE IF RateIsZero(basket) THEN Fail("panic: division by zero", red.s)
          ELSE
            LET sharesToMint == DecQuo(LegacyNewDecFromInt(amount),
                                       GetBasketExchangeRate(basket))
                mnt == MintCoins(red.s, basket.Denom, TruncateInt(sharesToMint))
                out == SendCoins(mnt.s, ModuleName, delegator, basket.Denom,
                                 TruncateInt(sharesToMint))
                nb  == [basket EXCEPT
                          !.TotalShares = @ + sharesToMint,
                          !.TotalStakedTokens = @ + amount]
            IN  IF ~mnt.ok THEN Fail("bank: mint", mnt.s)
                ELSE IF ~out.ok THEN Fail("bank: send", out.s)
                ELSE [err |-> "", s |-> SetBasket(out.s, nb),
                      out |-> [NoOut EXCEPT !.shares = sharesToMint]]

\* -------------------------------------------------------- ValidateBasic
RECURSIVE SumWeights(_, _)
SumWeights(vs, i) == IF i > Len(vs) THEN 0 ELSE vs[i].Weight + SumWeights(vs, i + 1)

HasDuplicateValidator(vs) ==
    \E i, j \in 1..Len(vs) : i < j /\ vs[i].ValidatorAddress = vs[j].ValidatorAddress

\* MsgCreateBasket.ValidateBasic
ValidateBasicCreateBasket(msg) ==
    IF ~AccAddressFromBech32OK(msg.Creator) THEN "invalid creator address"
    ELSE IF Len(msg.Validators) = 0 THEN "must provide at least one validator"
    ELSE IF \E i \in 1..Len(msg.Validators) :
               ~ValAddressFromBech32OK(msg.Validators[i].ValidatorAddress)
    THEN "invalid validator address"
    ELSE IF HasDuplicateValidator(msg.Validators) THEN "duplicate validator address"
    ELSE IF \E i \in 1..Len(msg.Validators) : msg.Validators[i].Weight <= 0
    THEN "validator weight must be positive"
    ELSE IF Abs(SumWeights(msg.Validators, 1) - OneDec) > WeightTolerance
    THEN "validator weights must sum to 1.0"
    ELSE ""

\* MsgMintBasketToken.ValidateBasic and MsgConvertDelegation.ValidateBasic:
\* positive amount of "utia".
ValidateBasicStakingAmount(addr, denom, amount) ==
    IF ~AccAddressFromBech32OK(addr) THEN "invalid address"
    ELSE IF amount <= 0 THEN "amount must be positive"
    ELSE IF denom # "utia" THEN "expected denom utia"
    ELSE ""

IsBasketDenomFormat(d) == d \in Denoms \ {BondDenom}

\* MsgRedeemBasketToken.ValidateBasic: positive amount of a "bTIA-" denom.
ValidateBasicRedeem(msg) ==
    IF ~AccAddressFromBech32OK(msg.Redeemer) THEN "invalid address"
    ELSE IF msg.Amount <= 0 THEN "amount must be positive"
    ELSE IF ~IsBasketDenomFormat(msg.Denom) THEN "invalid basket token denom format"
    ELSE ""

\* MsgConvertDelegation.ValidateBasic
ValidateBasicConvertDelegation(msg) ==
    IF ~AccAddressFromBech32OK(msg.Delegator) THEN "invalid address"
    ELSE IF ~ValAddressFromBech32OK(msg.ValidatorAddress) THEN "invalid validator address"
    ELSE ValidateBasicStakingAmount(msg.Delegator, msg.Denom, msg.Amount)

\* MsgConvertBasket.ValidateBasic
ValidateBasicConvertBasket(msg) ==
    IF ~AccAddressFromBech32OK(msg.Converter) THEN "invalid address"
    ELSE IF msg.FromBasketId = msg.ToBasketId
    THEN "source and target baskets must be different"
    ELSE IF msg.Amount <= 0 THEN "amount must be positive"
    ELSE IF ~IsBasketDenomFormat(msg.Denom) THEN "invalid basket token denom format"
    ELSE ""

\* ------------------------------------------------------------ messages
BasketIdInputs == {FormatUint(i) : i \in 1..MaxBaskets}

CreateBasketMsgs ==
    {[Creator |-> "u1", Validators |-> vs, Metadata |-> MetadataInput] :
        vs \in ValidatorSetInputs}
      \cup {[Creator |-> "bad", Validators |-> <<VW("v1", OneDec)>>,
             Metadata |-> MetadataInput]}

MintMsgs ==
    {[Minter |-> u, BasketId |-> b, Denom |-> BondDenom, Amount |-> a] :
        u \in Signers, b \in BasketIdInputs, a \in Amounts}
      \cup {[Minter |-> "bad", BasketId |-> "1", Denom |-> BondDenom, Amount |-> 1],
            [Minter |-> "u1", BasketId |-> "1", Denom |-> "bTIA-1", Amount |-> 1],
            [Minter |-> "u1", BasketId |-> "1", Denom |-> BondDenom, Amount |-> 0]}

RedeemMsgs ==
    {[Redeemer |-> u, BasketId |-> b, Denom |-> GetBasketTokenDenom(b), Amount |-> a] :
        u \in Signers, b \in BasketIdInputs, a \in Amounts}
      \cup {[Redeemer |-> "bad", BasketId |-> "1", Denom |-> "bTIA-1", Amount |-> 1],
            [Redeemer |-> "u1", BasketId |-> "1", Denom |-> "bTIA-2", Amount |-> 1],
            [Redeemer |-> "u1", BasketId |-> "1", Denom |-> BondDenom, Amount |-> 1]}

ConvertDelegationMsgs ==
    {[Delegator |-> u, ValidatorAddress |-> "v1", BasketId |-> b, Denom |-> BondDenom,
      Amount |-> a] : u \in Signers, b \in BasketIdInputs, a \in Amounts}
      \cup {[Delegator |-> "u1", ValidatorAddress |-> "bad", BasketId |-> "1",
             Denom |-> BondDenom, Amount |-> 1]}

ConvertBasketMsgs ==
    {[Converter |-> u, FromBasketId |-> f, ToBasketId |-> g,
      Denom |-> GetBasketTokenDenom(f), Amount |-> a] :
        u \in Signers, f \in BasketIdInputs, g \in BasketIdInputs, a \in Amounts}

\* ----------------------------------------------------------------- host
\* The host's transaction boundary: a message whose handler returns an error
\* leaves the state as it was before the message; the handler itself undoes
\* nothing.
\* Faulty variant: no transaction boundary, the handler's writes stay.
HostCommitNoRollback(pre, res) == res.s

HostCommit(pre, res) == IF res.err = "" THEN res.s ELSE pre

\* A message is delivered: ValidateBasic, then the handler, then the
\* transaction boundary.
Deliver(pre, vb, res) == IF vb # "" THEN Fail(vb, pre) ELSE res

Install(post) ==
    /\ baskets' = post.baskets
    /\ basketByDenom' = post.basketByDenom
    /\ nextBasketID' = post.nextBasketID
    /\ pending' = post.pending
    /\ redByUser' = post.redByUser
    /\ redByBasket' = post.redByBasket
    /\ nextPendingID' = post.nextPendingID
    /\ bal' = post.bal
    /\ deleg' = post.deleg
    /\ ubd' = post.ubd

NoMsg == [none |-> TRUE]

\* What `last` records of an operation: its name, its error, whether the
\* handler had written anything when it returned, and - for a successful
\* operation - its message and response.
Record(op, msg, res, pre) ==
    [op |-> op, err |-> res.err, dirty |-> res.s # pre,
     msg |-> IF res.err = "" THEN msg ELSE NoMsg, out |-> res.out]

CreatesBasket(op) == op \in {"CreateBasket", "Keeper.CreateBasket"}

CreatesPending(op) == op \in {"RedeemBasketToken"}

Step(op, msg, res) ==
    /\ nops < MaxOps
    /\ Install(HostCommit(Ledger, res))
    /\ last' = Record(op, msg, res, Ledger)
    /\ allocBasketIDs' = IF res.err = "" /\ CreatesBasket(op)
                         THEN Append(allocBasketIDs, res.out.id) ELSE allocBasketIDs
    /\ allocPendingIDs' = IF res.err = "" /\ CreatesPending(op)
                          THEN Append(allocPendingIDs, res.out.id) ELSE allocPendingIDs
    /\ nops' = nops + 1
    /\ now' = now

\* ------------------------------------------------------------- actions
CreateBasket ==
    \E msg \in CreateBasketMsgs :
        /\ Cardinality(DOMAIN baskets) < MaxBaskets
        /\ Step("CreateBasket", msg,
                Deliver(Ledger, ValidateBasicCreateBasket(msg),
                        MsgCreateBasket(Ledger, now, msg)))

MintBasketToken ==
    \E msg \in MintMsgs :
        Step("MintBasketToken", msg,
             Deliver(Ledger, ValidateBasicStakingAmount(msg.Minter, msg.Denom, msg.Amount),
                     MsgMintBasketToken(Ledger, msg)))

RedeemBasketToken ==
    \E msg \in RedeemMsgs :
        Step("RedeemBasketToken", msg,
             Deliver(Ledger, ValidateBasicRedeem(msg), MsgRedeemBasketToken(Ledger, now, msg)))

ConvertDelegation ==
    \E msg \in ConvertDelegationMsgs :
        Step("ConvertDelegation", msg,
             Deliver(Ledger, ValidateBasicConvertDelegation(msg),
                     MsgConvertDelegation(Ledger, msg)))

ConvertBasket ==
    \E msg \in ConvertBasketMsgs :
        Step("ConvertBasket", msg,
             Deliver(Ledger, ValidateBasicConvertBasket(msg), MsgConvertBasket(Ledger, msg)))

\* The keeper-level entries, called by code of the host inside a transaction.
KeeperValidatorSetInputs ==
    { <<VW("r1", OneDec)>>,
      <<VW("r1", OneDec \div 2), VW("r1", OneDec \div 2)>>,
      <<VW("r1", OneDec \div 2)>>,
      <<VW("r4", OneDec)>>,
      <<VW("v1", OneDec)>>,
      << >> }

KeeperCreate ==
    \E vs \in KeeperValidatorSetInputs :
        /\ Cardinality(DOMAIN baskets) < MaxBaskets
        /\ Step("Keeper.CreateBasket",
                [Creator |-> "u1", Validators |-> vs, Metadata |-> MetadataInput],
                KeeperCreateBasket(Ledger, now, "u1", vs, MetadataInput))

KeeperShareInputs == {OneDec \div 2} \cup {LegacyNewDecFromInt(a) : a \in Amounts}

KeeperConvertBasket ==
    \E f \in BasketIdInputs, g \in BasketIdInputs, sh \in KeeperShareInputs :
        Step("Keeper.ConvertBasketToBasket",
             [Converter |-> "u1", FromBasketId |-> f, ToBasketId |-> g, Shares |-> sh],
             KeeperConvertBasketToBasket(Ledger, "u1", f, g, sh))

KeeperConvertDelegation ==
    \E b \in BasketIdInputs, a \in Amounts :
        Step("Keeper.ConvertDelegationToBasket",
             [Delegator |-> "u1", ValidatorAddress |-> "v1", BasketId |-> b, Amount |-> a],
             KeeperConvertDelegationToBasket(Ledger, "u1", "v1", a, b))

\* Keeper.DeletePendingRedemption of a stored record.
DeletePending ==
    \E id \in DOMAIN pending :
        /\ Step("DeletePendingRedemption", pending[id],
                [err |-> "", s |-> DeletePendingRedemption(Ledger, pending[id]),
                 out |-> NoOut])

\* The block clock advances.
Tick ==
    /\ now < MaxTime
    /\ nops < MaxOps
    /\ now' = now + 1
    /\ nops' = nops + 1
    /\ UNCHANGED <<ledgerVars, last, allocBasketIDs, allocPendingIDs>>

Init ==
    /\ baskets = InitLedger.baskets
    /\ basketByDenom = InitLedger.basketByDenom
    /\ nextBasketID = InitLedger.nextBasketID
    /\ pending = InitLedger.pending
    /\ redByUser = InitLedger.redByUser
    /\ redByBasket = InitLedger.redByBasket
    /\ nextPendingID = InitLedger.nextPendingID
    /\ bal = InitLedger.bal
    /\ deleg = InitLedger.deleg
    /\ ubd = InitLedger.ubd
    /\ now = 0
    /\ last = [op |-> "Init", err |-> "", dirty |-> FALSE, msg |-> NoMsg, out |-> NoOut]
    /\ allocBasketIDs = << >>
    /\ allocPendingIDs = << >>
    /\ nops = 0

Next ==
    \/ CreateBasket
    \/ MintBasketToken
    \/ RedeemBasketToken
    \/ ConvertDelegation
    \/ ConvertBasket
    \/ Tick

Spec == Init /\ [][Next]_vars

\* The keeper-level entries beside the messages that create, mint and redeem.
NextKeeper ==
    \/ CreateBasket
    \/ MintBasketToken
    \/ RedeemBasketToken
    \/ KeeperCreate
    \/ KeeperConvertBasket
    \/ KeeperConvertDelegation
    \/ DeletePending
    \/ Tick

SpecKeeper == Init /\ [][NextKeeper]_vars

\* Every entry: the message server and the keeper level together.
NextAll ==
    \/ CreateBasket
    \/ MintBasketToken
    \/ RedeemBasketToken
    \/ ConvertDelegation
    \/ ConvertBasket
    \/ KeeperCreate
    \/ KeeperConvertBasket
    \/ KeeperConvertDelegation
    \/ DeletePending
    \/ Tick

SpecAll == Init /\ [][NextAll]_vars

\* ------------------------------------------------ the accounting check
\* basket-accounting: delegated by the custody account to the basket's
\* validators + tokensToReceive of the basket's pending redemptions + the
\* custody account's liquid balance, against totalStakedTokens.
AccountingTolerance == 1000

RECURSIVE ActualDelegated(_, _, _, _)
ActualDelegated(s, acct, vs, i) ==
    IF i > Len(vs) THEN 0
    ELSE (IF vs[i].ValidatorAddress \in Vals THEN s.deleg[acct][vs[i].ValidatorAddress] ELSE 0)
         + ActualDelegated(s, acct, vs, i + 1)

RECURSIVE SumTokensToReceive(_, _)
SumTokensToReceive(p, ids) ==
    IF ids = {} THEN 0
    ELSE LET id == CHOOSE x \in ids : TRUE
         IN  p[id].TokensToReceive + SumTokensToReceive(p, ids \ {id})

PendingUnbonding(s, basketID) ==
    SumTokensToReceive(s.pending, {id \in DOMAIN s.pending : s.pending[id].BasketId = basketID})

TotalAccountedValue(s, basketID) ==
    ActualDelegated(s, GetBasketAccountAddress(basketID), s.baskets[basketID].Validators, 1)
      + PendingUnbonding(s, basketID)
      + s.bal[GetBasketAccountAddress(basketID)][BondDenom]

BasketAccountingBroken(s, basketID) ==
    Abs(TotalAccountedValue(s, basketID) - s.baskets[basketID].TotalStakedTokens)
      > AccountingTolerance

\* --------------------------------------------------------------- claims
\* A step of the operation op that succeeded.
Took(op) == nops' = nops + 1 /\ now' = now /\ last'.op = op /\ last'.err = ""

\* The last step was the operation op and it succeeded.
Did(op) == last.op = op /\ last.err = ""

\* C1: in every state reached by successful creates, mints, redeems and
\* conversions, for every basket the stake its custody account delegates to
\* its validators, plus the tokensToReceive of its pending redemptions, plus
\* the custody account's liquid balance, is within 1000 base units of
\* totalStakedTokens.
C1_BasketAccounting == \A id \in DOMAIN baskets : ~BasketAccountingBroken(Ledger, id)

\* A mint of X by u into basket id followed at once by a redeem of the
\* basket tokens the mint credited: the redeem's result, or the failure of
\* either.
RoundTrip(s, t, id, u, X) ==
    LET mintMsg == [Minter |-> u, BasketId |-> id, Denom |-> BondDenom, Amount |-> X]
        m == Deliver(s, ValidateBasicStakingAmount(u, BondDenom, X),
                     MsgMintBasketToken(s, mintMsg))
    IN  IF m.err # "" THEN m
        ELSE LET redeemMsg == [Redeemer |-> u, BasketId |-> id,
                               Denom |-> GetBasketTokenDenom(id), Amount |-> m.out.shares]
             IN  Deliver(m.s, ValidateBasicRedeem(redeemMsg),
                         MsgRedeemBasketToken(m.s, t, redeemMsg))

\* C2: from every reachable state, a successful mint of X followed at once by
\* a successful redeem of exactly the credited basket tokens creates a
\* pending redemption with tokensToReceive <= X.
C2_RoundTripPaysAtMostDeposit ==
    \A id \in DOMAIN baskets, u \in Signers, X \in Amounts :
        RoundTrip(Ledger, now, id, u, X).err = ""
            => RoundTrip(Ledger, now, id, u, X).out.tokens <= X

\* C3: in every reachable state, every basket's totalShares equals the total
\* supply of the basket's denom on the token ledger.
C3_SharesEqualSupply ==
    \A id \in DOMAIN baskets :
        baskets[id].TotalShares = LegacyNewDecFromInt(Supply(bal, baskets[id].Denom))

StrictlyIncreasing(seq) == \A i, j \in 1..Len(seq) : i < j => seq[i] < seq[j]

AllBelow(seq, n) == \A i \in 1..Len(seq) : seq[i] < n

\* C5: the stored id counters never decrease, every basket id and every
\* pending-redemption id handed out is greater than all handed out before it,
\* and the id to be handed out next is greater than every id handed out so
\* far, whether or not its record still exists.
C5_MonotonicIds ==
    /\ [](/\ StrictlyIncreasing(allocBasketIDs)
          /\ StrictlyIncreasing(allocPendingIDs)
          /\ AllBelow(allocBasketIDs, NextBasketIDValue(Ledger))
          /\ AllBelow(allocPendingIDs, NextPendingIDValue(Ledger)))
    /\ [][nextBasketID' >= nextBasketID /\ nextPendingID' >= nextPendingID]_vars

\* A basket id and a pending-redemption id were handed out and the pending
\* redemption was deleted again.
C5_Witness ==
    /\ Len(allocBasketIDs) >= 1
    /\ Len(allocPendingIDs) >= 1
    /\ DOMAIN pending = {}
    /\ last.op = "DeletePendingRedemption"

\* C6: a successful mint of A into a basket whose totalShares is 0 credits
\* the minter with exactly A basket tokens, whatever totalStakedTokens is.
C6_FirstMintOneToOne ==
    [][(Took("MintBasketToken") /\ baskets[last'.msg.BasketId].TotalShares = 0)
         => /\ last'.out.shares = last'.msg.Amount
            /\ bal'[last'.msg.Minter][GetBasketTokenDenom(last'.msg.BasketId)]
                 = bal[last'.msg.Minter][GetBasketTokenDenom(last'.msg.BasketId)]
                   + last'.msg.Amount]_vars

\* A mint was credited 1:1 into a basket that had no shares and a stake left
\* over from earlier mints and redeems.
C6_Witness ==
    /\ Did("MintBasketToken")
    /\ last.out.shares = last.msg.Amount
    /\ baskets[last.msg.BasketId].TotalShares = LegacyNewDecFromInt(last.msg.Amount)
    /\ baskets[last.msg.BasketId].TotalStakedTokens > last.msg.Amount

\* floor(A / rate), the rate from the aggregates of basket b.
ExpectedBasketTokens(b, A) ==
    IF b.TotalShares = 0 THEN A
    ELSE (A * OneDec) \div GetBasketExchangeRate(b)

RECURSIVE SumSplits(_, _, _)
SumSplits(vs, i, underlying) ==
    IF i > Len(vs) THEN 0
    ELSE (vs[i].Weight * underlying) \div OneDec + SumSplits(vs, i + 1, underlying)

\* floor(a * rate), the rate from the aggregates of basket b.
ExpectedUnderlying(b, a) == (a * GetBasketExchangeRate(b)) \div OneDec

\* C8: a successful redeem of a basket tokens at block time now creates
\* exactly one pending redemption, with sharesBurned = a, tokensToReceive =
\* the sum over the validators of floor(w * floor(a * rate)), creationTime =
\* now and completionTime = now + the unbonding period; that same amount
\* starts unbonding from the custody account; totalShares decreases by a and
\* totalStakedTokens by tokensToReceive.
C8_RedeemRecordsUnbonding ==
    [][Took("RedeemBasketToken")
         => LET id    == last'.msg.BasketId
                a     == last'.msg.Amount
                total == SumSplits(baskets[id].Validators, 1,
                                   ExpectedUnderlying(baskets[id], a))
                new   == (DOMAIN pending') \ (DOMAIN pending)
            IN  /\ Cardinality(new) = 1
                /\ \A p \in DOMAIN pending : p \in DOMAIN pending' /\ pending'[p] = pending[p]
                /\ \A p \in new :
                     /\ p = last'.out.id
                     /\ pending'[p].BasketId = id
                     /\ pending'[p].Delegator = last'.msg.Redeemer
                     /\ pending'[p].SharesBurned = LegacyNewDecFromInt(a)
                     /\ pending'[p].TokensToReceive = total
                     /\ pending'[p].CreationTime = now
                     /\ pending'[p].CompletionTime = now + UnbondingPeriod
                /\ ubd'[GetBasketAccountAddress(id)] = ubd[GetBasketAccountAddress(id)] + total
                /\ baskets'[id].TotalShares = baskets[id].TotalShares - LegacyNewDecFromInt(a)
                /\ baskets'[id].TotalStakedTokens = baskets[id].TotalStakedTokens - total]_vars

\* A redeem after the clock had advanced sent a positive amount, smaller than
\* the basket tokens burned, to unbonding.
C8_Witness ==
    /\ Did("RedeemBasketToken")
    /\ now > 0
    /\ last.out.tokens > 0
    /\ last.out.tokens < last.msg.Amount
    /\ pending[last.out.id].TokensToReceive = last.out.tokens

\* C9: every pending redemption a successful redeem of a positive amount has
\* created has sharesBurned > 0 and tokensToReceive > 0.
C9_RedemptionsArePositive ==
    \A id \in DOMAIN pending :
        pending[id].SharesBurned > 0 /\ pending[id].TokensToReceive > 0

\* C10: a successful conversion of A basket tokens from basket s to another
\* basket t, with underlying = floor(A * rate(s)) and newShares =
\* floor(underlying / rate(t)), decreases s.totalShares by A and
\* s.totalStakedTokens by underlying and increases t.totalStakedTokens by
\* underlying and t.totalShares by newShares.
C10_ConversionMovesAggregates ==
    [][(Took("ConvertBasket") /\ last'.msg.FromBasketId # last'.msg.ToBasketId)
         => LET f == last'.msg.FromBasketId
                g == last'.msg.ToBasketId
                A == last'.msg.Amount
                underlying == ExpectedUnderlying(baskets[f], A)
                newShares  == ExpectedBasketTokens(baskets[g], underlying)
            IN  /\ baskets'[f].TotalShares = baskets[f].TotalShares - LegacyNewDecFromInt(A)
                /\ baskets'[f].TotalStakedTokens = baskets[f].TotalStakedTokens - underlying
                /\ baskets'[g].TotalStakedTokens = baskets[g].TotalStakedTokens + underlying
                /\ baskets'[g].TotalShares
                     = baskets[g].TotalShares + LegacyNewDecFromInt(newShares)]_vars

\* floor(wT * floor(wS * underlying)): what one (source validator, target
\* validator) pair of a basket-to-basket conversion moves.
ToThis(wS, wT, underlying) == (wT * ((wS * underlying) \div OneDec)) \div OneDec

\* What leaves validator v of the source basket: the pairs whose source
\* validator is v, over source validators i..Len(fvs).
RECURSIVE RedelegatedOutOf(_, _, _, _, _)
RedelegatedOutOf(v, fvs, i, tvs, underlying) ==
    IF i > Len(fvs) THEN 0
    ELSE (IF fvs[i].ValidatorAddress = v
          THEN SumSplits(tvs, 1, (fvs[i].Weight * underlying) \div OneDec)
          ELSE 0)
         + RedelegatedOutOf(v, fvs, i + 1, tvs, underlying)

\* What one target validator of weight wT receives from the source
\* validators i..Len(fvs).
RECURSIVE ToThisFromAll(_, _, _, _)
ToThisFromAll(fvs, i, wT, underlying) ==
    IF i > Len(fvs) THEN 0
    ELSE ToThis(fvs[i].Weight, wT, underlying) + ToThisFromAll(fvs, i + 1, wT, underlying)

\* What arrives at validator v of the target basket: the pairs whose target
\* validator is v, over target validators j..Len(tvs).
RECURSIVE RedelegatedInto(_, _, _, _, _)
RedelegatedInto(v, fvs, tvs, j, underlying) ==
    IF j > Len(tvs) THEN 0
    ELSE (IF tvs[j].ValidatorAddress = v
          THEN ToThisFromAll(fvs, 1, tvs[j].Weight, underlying)
          ELSE 0)
         + RedelegatedInto(v, fvs, tvs, j + 1, underlying)

\* C11: in a basket-to-basket conversion every pair (addrS, addrT) moves
\* toThis = floor(wT * floor(wS * underlying)) out of the delegation the
\* SOURCE custody account holds at addrS and into a delegation the TARGET
\* custody account holds at addrT: the target custody's stake grows by what
\* was redelegated and the source custody's shrinks by it.
C11_ConversionMovesStakeToTargetCustody ==
    [][(Took("ConvertBasket") /\ last'.msg.FromBasketId # last'.msg.ToBasketId)
         => LET f == last'.msg.FromBasketId
                g == last'.msg.ToBasketId
                custS == GetBasketAccountAddress(f)
                custT == GetBasketAccountAddress(g)
                underlying == ExpectedUnderlying(baskets[f], last'.msg.Amount)
            IN  \A v \in Vals :
                  /\ deleg'[custS][v] = deleg[custS][v]
                        - RedelegatedOutOf(v, baskets[f].Validators, 1,
                                           baskets[g].Validators, underlying)
                  /\ deleg'[custT][v] = deleg[custT][v]
                        + RedelegatedInto(v, baskets[f].Validators,
                                          baskets[g].Validators, 1, underlying)]_vars

\* A successful delegation-to-basket conversion, through the message server
\* or through the keeper.
TookConvertDelegation ==
    Took("ConvertDelegation") \/ Took("Keeper.ConvertDelegationToBasket")

\* C12: a successful delegation-to-basket conversion of A staked tokens into
\* basket b credits the delegator exactly floor(A / rate(b)) basket tokens,
\* the rate taken from the aggregates before the operation, adds A to
\* totalStakedTokens and adds the minted amount to totalShares.
C12_ConvertDelegationMintsAtRate ==
    [][TookConvertDelegation
         => LET id == last'.msg.BasketId
                u  == last'.msg.Delegator
                A  == last'.msg.Amount
                d  == GetBasketTokenDenom(id)
                sharesMinted == (A * OneDec) \div GetBasketExchangeRate(baskets[id])
            IN  /\ bal'[u][d] = bal[u][d] + sharesMinted
                /\ baskets'[id].TotalStakedTokens = baskets[id].TotalStakedTokens + A
                /\ baskets'[id].TotalShares
                     = baskets[id].TotalShares + LegacyNewDecFromInt(sharesMinted)]_vars

\* The validator-list invariant of a basket: non-empty, pairwise distinct
\* addresses, strictly positive weights, weights summing to 1 within the
\* tolerance.
ValidatorListWellFormed(vs) ==
    /\ Len(vs) > 0
    /\ \A i, j \in 1..Len(vs) : i # j => vs[i].ValidatorAddress # vs[j].ValidatorAddress
    /\ \A i \in 1..Len(vs) : vs[i].Weight > 0
    /\ Abs(SumWeights(vs, 1) - OneDec) <= WeightTolerance

\* C13: every basket stored by a creation entry point (Keeper.CreateBasket,
\* or msgServer.CreateBasket behind ValidateBasic) has a non-empty validator
\* list with pairwise distinct addresses, strictly positive weights and
\* weights summing to 1 within the tolerance.
C13_StoredBasketsAreWellFormed ==
    \A id \in DOMAIN baskets : ValidatorListWellFormed(baskets[id].Validators)

\* The validator a listed address names at each creation entry point, "none"
\* when the staking subsystem has no such validator: the message server
\* decodes the bech32 string, the keeper casts the string.
ResolveBech32(str) == IF str \in Vals THEN str ELSE "none"

ResolveCast(str) == IF str \in RawValAddrs THEN RawValidator[str] ELSE "none"

\* The failure the listed validators rs[i..] call for, by the first of them
\* that is missing or not bonded; "" when all exist and are bonded.
RECURSIVE ExpectedCreationError(_, _)
ExpectedCreationError(rs, i) ==
    IF i > Len(rs) THEN ""
    ELSE IF rs[i] = "none" THEN "ValidatorNotFound"
    ELSE IF ValidatorStatus[rs[i]] # "Bonded" THEN "InvalidValidatorSet"
    ELSE ExpectedCreationError(rs, i + 1)

\* The failure condition an error stands for; the keeper's untyped
\* "validator not found" is counted as ValidatorNotFound.
ErrorKind(err) ==
    CASE err \in {"ErrValidatorNotFound", "validator not found"} -> "ValidatorNotFound"
      [] err = "ErrInvalidValidatorSet" -> "InvalidValidatorSet"
      [] OTHER -> err

\* C14 for the message server, in the current state: every creation message
\* with a well-formed creator and well-formed addresses that lists a missing
\* or unbonded validator fails with the error of that validator and stores
\* no basket.
MsgCreateRejectsBadValidators ==
    \A msg \in CreateBasketMsgs :
        LET vs  == msg.Validators
            rs  == [i \in 1..Len(vs) |-> ResolveBech32(vs[i].ValidatorAddress)]
            res == MsgCreateBasket(Ledger, now, msg)
        IN  (/\ AccAddressFromBech32OK(msg.Creator)
             /\ \A i \in 1..Len(vs) : ValAddressFromBech32OK(vs[i].ValidatorAddress)
             /\ ExpectedCreationError(rs, 1) # "")
              => /\ ErrorKind(res.err) = ExpectedCreationError(rs, 1)
                 /\ res.s.baskets = baskets

\* C14 for the keeper, in the current state.
KeeperCreateRejectsBadValidators ==
    \A creator \in Signers, vs \in KeeperValidatorSetInputs :
        LET rs  == [i \in 1..Len(vs) |-> ResolveCast(vs[i].ValidatorAddress)]
            res == KeeperCreateBasket(Ledger, now, creator, vs, MetadataInput)
        IN  ExpectedCreationError(rs, 1) # ""
              => /\ ErrorKind(res.err) = ExpectedCreationError(rs, 1)
                 /\ res.s.baskets = baskets

\* C14: basket creation, through either entry point, fails with
\* ValidatorNotFound when a listed validator does not exist and with
\* InvalidValidatorSet when it exists but is not bonded, and stores no basket
\* record.  Stated in every state in which a creation can still be handled.
C14_CreationRejectsMissingOrUnbonded ==
    Cardinality(DOMAIN baskets) < MaxBaskets
      => MsgCreateRejectsBadValidators /\ KeeperCreateRejectsBadValidators

\* The validation errors of the operations: malformed address, basket not
\* found, wrong denomination, validator not found or not bonded, weights not
\* summing to one.
ValidationErrors ==
    {"ErrInvalidCreator", "ErrInvalidMinter", "ErrInvalidRedeemer", "ErrInvalidDelegator",
     "ErrInvalidConverter", "ErrInvalidValidatorAddr", "ErrBasketNotFound",
     "ErrInvalidStakingDenom", "ErrInvalidBasketDenom", "ErrValidatorNotFound",
     "ErrInvalidValidatorSet", "validator not found", "validator weights must sum to 1.0"}

\* C15: an operation that returns a validation error has performed no store
\* write, no id-counter increment, no transfer, mint or burn and no staking
\* call: the state the operation itself leaves (before any rollback by the
\* host) is the state it was given.
C15_ValidationErrorsPrecedeMutation ==
    last.err \in ValidationErrors => ~last.dirty

\* C16: under any sequence of CreatePendingRedemption and
\* DeletePendingRedemption (of a record as stored), the by-user index holds
\* the entry (user, id) exactly when the primary record with that id exists
\* and has that delegator, and the by-basket index holds (basketId, id)
\* exactly when the primary record with that id exists and has that basket.
C16_RedemptionIndexesMatchRecords ==
    /\ redByUser = {<<pending[id].Delegator, id>> : id \in DOMAIN pending}
    /\ redByBasket = {<<pending[id].BasketId, id>> : id \in DOMAIN pending}
    /\ \A id \in DOMAIN pending : pending[id].Id = id

\* A redemption was created, indexed, and then deleted as stored.
C16_Witness ==
    /\ Did("DeletePendingRedemption")
    /\ Len(allocPendingIDs) > 0
    /\ last.msg.Id \notin DOMAIN pending
    /\ <<last.msg.Delegator, last.msg.Id>> \notin redByUser

\* C17: for every stored basket b created through any creation entry point
\* the denomination index maps b.denom to b.id, and every entry of the
\* denomination index points at an existing basket whose denom is the key.
C17_DenomIndexMatchesBaskets ==
    /\ \A id \in DOMAIN baskets :
          /\ baskets[id].Denom \in DOMAIN basketByDenom
          /\ basketByDenom[baskets[id].Denom] = baskets[id].Id
    /\ \A d \in DOMAIN basketByDenom :
          /\ basketByDenom[d] \in DOMAIN baskets
          /\ baskets[basketByDenom[d]].Denom = d

\* The block times at which the mature list is asked for: up to the latest
\* completion time a stored record can have, and one past it.
BlockTimes == 0..(MaxTime + UnbondingPeriod + 1)

Listed(seq) == {seq[i] : i \in 1..Len(seq)}

\* C18: for every stored PendingRedemption r with completion time t and
\* every block time: r is absent from the mature list when the block time is
\* before t and present when it is t or later (also when it equals t); the
\* mature list holds no record that is not stored.
C18_MatureListIsByCompletionTime ==
    \A bt \in BlockTimes :
        LET mature == Listed(GetMaturePendingRedemptions(Ledger, bt))
        IN  /\ mature \subseteq {pending[id] : id \in DOMAIN pending}
            /\ \A id \in DOMAIN pending :
                  pending[id] \in mature <=> bt >= pending[id].CompletionTime

\* A stored record that is not mature at the current block time and is
\* listed at the block time equal to its completion time.
C18_Witness ==
    \E id \in DOMAIN pending :
        /\ now < pending[id].CompletionTime
        /\ pending[id] \notin Listed(GetMaturePendingRedemptions(Ledger, now))
        /\ pending[id] \in Listed(GetMaturePendingRedemptions(Ledger,
                                                              pending[id].CompletionTime))

\* The ids of the pending redemptions created so far.
CreatedPendingIDs == {allocPendingIDs[i] : i \in 1..Len(allocPendingIDs)}

\* C19: once a PendingRedemption with a given id has been created, every
\* later state holds either a record with that id whose fields are all as
\* created or no record with that id: no step (mint, redeem, conversion,
\* creation, deletion) changes a field of a stored record, and a record that
\* appears carries an id no earlier record had.
C19_RedemptionsAreImmutable ==
    [][/\ \A id \in (DOMAIN pending) \cap (DOMAIN pending') : pending'[id] = pending[id]
       /\ \A id \in (DOMAIN pending') \ (DOMAIN pending) : id \notin CreatedPendingIDs]_vars

\* A stored redemption has lived through a later successful operation.
C19_Witness ==
    /\ DOMAIN pending # {}
    /\ \/ Did("MintBasketToken")
       \/ Did("ConvertDelegation")
       \/ Did("Keeper.ConvertDelegationToBasket")

\* The baskets a handled message names: the basket of a mint, a redeem or a
\* delegation conversion, the two baskets of a basket conversion.
NamedBaskets(l) ==
    IF l.op \in {"MintBasketToken", "RedeemBasketToken", "ConvertDelegation",
                 "Keeper.ConvertDelegationToBasket"} /\ l.err = ""
    THEN {l.msg.BasketId}
    ELSE IF l.op \in {"ConvertBasket", "Keeper.ConvertBasketToBasket"} /\ l.err = ""
    THEN {l.msg.FromBasketId, l.msg.ToBasketId}
    ELSE {}

\* A basket with its two aggregates blanked: id, denom, validators, creator,
\* creation time and metadata.
Descriptive(b) == [b EXCEPT !.TotalShares = 0, !.TotalStakedTokens = 0]

\* C20: a basket once created exists in every later state; no step changes
\* its id, denom, validators, creator, creation time or metadata; mint,
\* redeem and conversion change fields (the two aggregates) only of the
\* basket or baskets their message names, and every other step changes no
\* field of any existing basket.
C20_BasketsPersistAndKeepTheirDescription ==
    [][\A id \in DOMAIN baskets :
          /\ id \in DOMAIN baskets'
          /\ Descriptive(baskets'[id]) = Descriptive(baskets[id])
          /\ (now' # now \/ id \notin NamedBaskets(last')) => baskets'[id] = baskets[id]]_vars

\* Two baskets exist and a successful mint, redeem or conversion has changed
\* the aggregates of one it named.
C20_Witness ==
    /\ Cardinality(DOMAIN baskets) >= 2
    /\ NamedBaskets(last) # {}
    /\ \E id \in NamedBaskets(last) : baskets[id].TotalStakedTokens > 0

\* The exchange-rate band of the basket-accounting check: with shares
\* outstanding, 0.1 <= totalStakedTokens / totalShares <= 10.0 (totalShares
\* is a Dec, so the staked amount is scaled by OneDec to compare).
RateWithinBounds(b) ==
    b.TotalShares > 0
      => /\ 10 * (b.TotalStakedTokens * OneDec) >= b.TotalShares
         /\ b.TotalStakedTokens * OneDec <= 10 * b.TotalShares

\* C21: in every state reached by successful operations (no corruption
\* helper), every basket with totalShares > 0 has an exchange rate
\* totalStakedTokens / totalShares within [0.1, 10.0].
C21_ExchangeRateStaysInBand ==
    \A id \in DOMAIN baskets : RateWithinBounds(baskets[id])

C23_SharesBurnedWithinBasketShares ==
    \A id \in DOMAIN pending :
        /\ Found(Ledger, pending[id].BasketId)
        /\ pending[id].SharesBurned <= baskets[pending[id].BasketId].TotalShares

\* C24: a successful mint of amount A moves the whole A from the minter
\* through the module clearing account into the basket custody account: the
\* staking-asset balance of the clearing account after the mint is its
\* balance before the mint, and the minter has paid A.
C24_MintLeavesClearingAccountUnchanged ==
    [][Took("MintBasketToken")
         => /\ bal'[ModuleName][BondDenom] = bal[ModuleName][BondDenom]
            /\ bal'[last'.msg.Minter][BondDenom]
                 = bal[last'.msg.Minter][BondDenom] - last'.msg.Amount]_vars

\* X divides evenly by the weight splits of vs: every weight * X is a whole
\* number of base units.
DividesEvenly(vs, X) == \A i \in 1..Len(vs) : (vs[i].Weight * X) % OneDec = 0

RateIsOne(b) == b.TotalShares = LegacyNewDecFromInt(b.TotalStakedTokens)

RECURSIVE StakeArrivedAt(_, _, _)
StakeArrivedAt(before, after, pairs) ==
    IF pairs = {} THEN 0
    ELSE LET p == CHOOSE x \in pairs : TRUE
             d == after[p[1]][p[2]] - before[p[1]][p[2]]
         IN  (IF d > 0 THEN d ELSE 0) + StakeArrivedAt(before, after, pairs \ {p})

\* A successful basket-to-basket conversion, through the message server or
\* through the keeper.
TookConvertBasket ==
    Took("ConvertBasket") \/ Took("Keeper.ConvertBasketToBasket")

\* The sum over source validators S and target validators j..Len(tvs) of
\* floor(wT * floor(wS * underlying)).
RECURSIVE NestedSplits(_, _, _, _)
NestedSplits(fvs, tvs, j, underlying) ==
    IF j > Len(tvs) THEN 0
    ELSE ToThisFromAll(fvs, 1, tvs[j].Weight, underlying)
         + NestedSplits(fvs, tvs, j + 1, underlying)

\* The dust bound on the nested splits of underlying U between two validator
\* lists.
DustWithinBound(fvs, tvs, U) ==
    /\ NestedSplits(fvs, tvs, 1, U) <= U
    /\ U - NestedSplits(fvs, tvs, 1, U) <= Len(fvs) * Len(tvs)

\* C26: in a basket-to-basket conversion with underlying U between baskets
\* whose weights sum to 1, the total stake redelegated (the sum over source
\* validators S and target validators T of floor(wT * floor(wS * U))) never
\* exceeds U and falls short of U by at most sourceValidatorCount *
\* targetValidatorCount base units.  The first part is the bound on the sum
\* for every pair of stored baskets and every underlying a conversion can be
\* asked for; the second part is the stake a successful conversion moved.
C26_NestedTruncationDustIsBounded ==
    /\ [](\A f \in DOMAIN baskets, g \in DOMAIN baskets :
            (/\ TotalWeight(baskets[f].Validators, 1) = OneDec
             /\ TotalWeight(baskets[g].Validators, 1) = OneDec)
              => \A a \in Amounts \cup {baskets[f].TotalStakedTokens} :
                    a >= 0 => DustWithinBound(baskets[f].Validators,
                                              baskets[g].Validators, a))
    /\ [][(/\ TookConvertBasket
            /\ TotalWeight(baskets[last'.msg.FromBasketId].Validators, 1) = OneDec
            /\ TotalWeight(baskets[last'.msg.ToBasketId].Validators, 1) = OneDec)
             => LET fvs == baskets[last'.msg.FromBasketId].Validators
                    tvs == baskets[last'.msg.ToBasketId].Validators
                    U == last'.out.tokens
                    redelegated == StakeArrivedAt(deleg, deleg', Delegators \X Vals)
                IN  /\ redelegated = NestedSplits(fvs, tvs, 1, U)
                    /\ redelegated <= U
                    /\ U - redelegated <= Len(fvs) * Len(tvs)]_vars

\* A conversion between two baskets has moved stake and left dust behind.
C26_Witness ==
    /\ Did("ConvertBasket")
    /\ last.msg.FromBasketId # last.msg.ToBasketId
    /\ LET fvs == baskets[last.msg.FromBasketId].Validators
           tvs == baskets[last.msg.ToBasketId].Validators
           moved == ToThisFromAll(fvs, 1, tvs[1].Weight, last.out.tokens)
       IN  /\ Len(tvs) > 1
           /\ moved > 0
           /\ ToThisFromAll(fvs, 1, tvs[1].Weight, last.out.tokens)
                + ToThisFromAll(fvs, 1, tvs[2].Weight, last.out.tokens) < last.out.tokens

\* The address each operation computes for the custody account of basket id:
\* the message server's handlers call GetBasketAccountAddress, the keeper's
\* conversions call GetBasketModuleAccount.
CustodyAddressUsedBy(op, id) ==
    IF op \in {"Keeper.ConvertBasketToBasket", "Keeper.ConvertDelegationToBasket"}
    THEN GetBasketModuleAccount(id)
    ELSE GetBasketAccountAddress(id)

\* The operations that act on a basket's stake or custody balance.
StakeOperations ==
    {"MintBasketToken", "RedeemBasketToken", "ConvertDelegation", "ConvertBasket",
     "Keeper.ConvertBasketToBasket", "Keeper.ConvertDelegationToBasket"}

\* C27: for every basket id, all operations that act on the basket's stake
\* or custody balance use one and the same custody address, the address
\* GetBasketAccountAddress derives from the module name and "basket-" + id,
\* and two distinct basket ids never share a custody address; so the
\* redelegation a keeper-level conversion performs between two stored baskets
\* is the one the message server performs for the same underlying amount.
C27_OneCustodyAddressPerBasket ==
    /\ \A id \in DOMAIN baskets, op \in StakeOperations :
          CustodyAddressUsedBy(op, id) = GetBasketAccountAddress(id)
    /\ \A id1 \in BasketIds, id2 \in BasketIds :
          id1 # id2 => GetBasketAccountAddress(id1) # GetBasketAccountAddress(id2)
    /\ \A f \in DOMAIN baskets, g \in DOMAIN baskets, a \in Amounts :
          redelegateProportionally(Ledger, GetBasketModuleAccount(f),
                                   GetBasketModuleAccount(g), baskets[f].Validators, 1,
                                   baskets[g].Validators, a)
            = redelegateProportionally(Ledger, GetBasketAccountAddress(f),
                                       GetBasketAccountAddress(g), baskets[f].Validators,
                                       1, baskets[g].Validators, a)

\* ------------------------------------------------------------- genesis
\* types.NewParams(): the module has no parameters.
NewParams == << >>

\* types.DefaultGenesis
DefaultGenesis ==
    [Params |-> NewParams, Baskets |-> << >>, PendingRedemptions |-> << >>,
     NextBasketId |-> 1, NextPendingId |-> 1]

\* Keeper.GetParams returns NewParams() whatever the store holds.
GetParams(s) == NewParams

\* Keeper.SetParams writes nothing.
SetParams(s, params) == s

\* Keeper.ExportGenesis: the default genesis with the params put in.
ExportGenesis(s) == [DefaultGenesis EXCEPT !.Params = GetParams(s)]

\* Keeper.InitGenesis: sets the params and returns.
InitGenesis(s, genState) == SetParams(s, genState.Params)

\* The elements of a list, as a set.
Elements(list) == {list[i] : i \in 1..Len(list)}

\* C28: exporting genesis from any reachable state yields the full basket
\* list, the full pending-redemption list and both id counters of that state,
\* and initializing a fresh ledger from that export restores exactly the same
\* baskets, pending redemptions (with their indices) and counters.
C28_GenesisExportImportRoundTrip ==
    LET gen   == ExportGenesis(Ledger)
        fresh == InitGenesis(InitLedger, gen)
    IN  /\ Elements(gen.Baskets) = {baskets[id] : id \in DOMAIN baskets}
        /\ Elements(gen.PendingRedemptions) = {pending[id] : id \in DOMAIN pending}
        /\ gen.NextBasketId = GetNextBasketID(Ledger).id
        /\ gen.NextPendingId = GetNextPendingID(Ledger).id
        /\ fresh.baskets = baskets
        /\ fresh.basketByDenom = basketByDenom
        /\ fresh.pending = pending
        /\ fresh.redByUser = redByUser
        /\ fresh.redByBasket = redByBasket
        /\ GetNextBasketID(fresh).id = GetNextBasketID(Ledger).id
        /\ GetNextPendingID(fresh).id = GetNextPendingID(Ledger).id

\* --------------------------------------------------- the invariant auditor
\* The four checks over a state snapshot s at block time t; each operator is
\* "the check reports broken".

\* basket-accounting: some basket is off its accounted value by more than the
\* tolerance, or has a negative aggregate, or has shares and a rate outside
\* [0.1, 10.0].
BasketAccountingCheckBroken(s) ==
    \E id \in DOMAIN s.baskets :
        \/ BasketAccountingBroken(s, id)
        \/ s.baskets[id].TotalShares < 0
        \/ s.baskets[id].TotalStakedTokens < 0
        \/ ~RateWithinBounds(s.baskets[id])

\* module-accounts: dust tolerance of a custody balance over the matured
\* redemptions of its basket, and the ceiling of the clearing account.
CustodyDustTolerance == 10000

ClearingAccountCeiling == 1000000

MaturedTokensToReceive(s, t, basketID) ==
    SumTokensToReceive(s.pending,
        {id \in DOMAIN s.pending :
            s.pending[id].BasketId = basketID /\ s.pending[id].CompletionTime <= t})

ModuleAccountsCheckBroken(s, t) ==
    \/ \E id \in DOMAIN s.baskets :
          s.bal[GetBasketAccountAddress(id)][BondDenom]
            > MaturedTokensToReceive(s, t, id) + CustodyDustTolerance
    \/ s.bal[ModuleName][BondDenom] >= ClearingAccountCeiling

\* pending-redemptions: seven days, in block-time units (the unbonding period
\* of 21 days is UnbondingPeriod units).
StalenessLimit == 1

PendingRedemptionsCheckBroken(s, t) ==
    \E id \in DOMAIN s.pending :
        LET r == s.pending[id]
        IN  \/ ~Found(s, r.BasketId)
            \/ r.SharesBurned <= 0
            \/ r.TokensToReceive <= 0
            \/ (Found(s, r.BasketId) /\ r.SharesBurned > s.baskets[r.BasketId].TotalShares)
            \/ ~AccAddressFromBech32OK(r.Delegator)
            \/ r.CompletionTime + StalenessLimit < t

\* basket-state: duplicate denom across the ledger, denom not that of the id,
\* a malformed validator list, an invalid validator or creator address.  (Ids
\* are the keys of the store and cannot repeat; the metadata of every basket
\* is MetadataInput, which is within the length bounds.)
BasketStateCheckBroken(s) ==
    \/ \E id1, id2 \in DOMAIN s.baskets :
          id1 # id2 /\ s.baskets[id1].Denom = s.baskets[id2].Denom
    \/ \E id \in DOMAIN s.baskets :
          LET b == s.baskets[id]
          IN  \/ b.Denom # GetBasketTokenDenom(b.Id)
              \/ ~ValidatorListWellFormed(b.Validators)
              \/ \E i \in 1..Len(b.Validators) :
                    ~ValAddressFromBech32OK(b.Validators[i].ValidatorAddress)
              \/ ~AccAddressFromBech32OK(b.Creator)

\* All four checks report not-broken.
Healthy(s, t) ==
    /\ ~BasketAccountingCheckBroken(s)
    /\ ~ModuleAccountsCheckBroken(s, t)
    /\ ~PendingRedemptionsCheckBroken(s, t)
    /\ ~BasketStateCheckBroken(s)

\* ------------------------------------------------ the corruption helpers
\* What inflate_total_staked adds and deflate_total_staked subtracts.
CorruptionAmount == 1000000

\* Faulty variant of the corruption helper: the inflation adds no more than
\* the tolerance of the accounting check.
BreakBasketAccountingWithinTolerance(s, basketID, corruptionType) ==
    IF ~Found(s, basketID) THEN Fail("ErrBasketNotFound", s)
    ELSE [err |-> "",
          s |-> SetBasket(s, [s.baskets[basketID] EXCEPT
                                !.TotalStakedTokens = @ + AccountingTolerance]),
          out |-> NoOut]

\* Keeper.BreakBasketAccounting
BreakBasketAccounting(s, basketID, corruptionType) ==
    IF ~Found(s, basketID) THEN Fail("ErrBasketNotFound", s)
    ELSE
      LET basket == s.baskets[basketID]
          Stored(b) == [err |-> "", s |-> SetBasket(s, b), out |-> NoOut]
      IN  CASE corruptionType = "inflate_total_staked" ->
                 Stored([basket EXCEPT !.TotalStakedTokens = @ + CorruptionAmount])
            [] corruptionType = "deflate_total_staked" ->
                 Stored([basket EXCEPT !.TotalStakedTokens =
                           IF @ > CorruptionAmount THEN @ - CorruptionAmount ELSE 0])
            [] corruptionType = "negative_shares" ->
                 Stored([basket EXCEPT !.TotalShares = LegacyNewDecFromInt(0 - 1000)])
            [] corruptionType = "negative_staked" ->
                 Stored([basket EXCEPT !.TotalStakedTokens = 0 - CorruptionAmount])
            [] corruptionType = "unreasonable_exchange_rate" ->
                 Stored([basket EXCEPT !.TotalShares = LegacyNewDecFromInt(CorruptionAmount),
                                       !.TotalStakedTokens = 100])
            [] OTHER -> Fail("ErrInvalidAmount", s)

\* C29: from any healthy state containing a basket (all four checks
\* not-broken), adding 1,000,000 to that basket's totalStakedTokens without
\* backing stake (the corruption inflate_total_staked) leads to a state in
\* which the basket-accounting check reports broken.
C29_InflationIsDetected ==
    \A id \in DOMAIN baskets :
        Healthy(Ledger, now)
          => LET res == BreakBasketAccounting(Ledger, id, "inflate_total_staked")
             IN  res.err = "" /\ BasketAccountingCheckBroken(res.s)

\* A healthy state with a basket that holds stake, whose inflation the
\* accounting check reports.
C29_Witness ==
    /\ Healthy(Ledger, now)
    /\ \E id \in DOMAIN baskets :
          /\ baskets[id].TotalStakedTokens > 0
          /\ BasketAccountingCheckBroken(
                 BreakBasketAccounting(Ledger, id, "inflate_total_staked").s)

\* C30: from any healthy state containing a basket, the corruption
\* deflate_total_staked (subtract 1,000,000 from totalStakedTokens, or set it
\* to 0 when it is not greater than 1,000,000) leads to a state in which the
\* basket-accounting check reports broken, for every value totalStakedTokens
\* can have in a healthy state, a freshly created basket included.
C30_DeflationIsDetected ==
    \A id \in DOMAIN baskets :
        Healthy(Ledger, now)
          => LET res == BreakBasketAccounting(Ledger, id, "deflate_total_staked")
             IN  res.err = "" /\ BasketAccountingCheckBroken(res.s)

\* A successful basket creation, through the message server or through the
\* keeper.
TookCreateBasket == Took("CreateBasket") \/ Took("Keeper.CreateBasket")

\* C31: in every state reached by basket creations through either creation
\* entry point, no two stored baskets have the same id (a creation stores its
\* basket under an id that was not stored, and leaves the stored baskets as
\* they were), no two have the same denom, and every basket's denom is
\* "bTIA-" + id.
C31_BasketIdsAndDenomsAreUnique ==
    /\ [](/\ \A id \in DOMAIN baskets :
                /\ baskets[id].Id = id
                /\ baskets[id].Denom = GetBasketTokenDenom(id)
          /\ \A id1 \in DOMAIN baskets, id2 \in DOMAIN baskets :
                id1 # id2 => baskets[id1].Denom # baskets[id2].Denom)
    /\ [][TookCreateBasket
            => /\ FormatUint(last'.out.id) \notin DOMAIN baskets
               /\ DOMAIN baskets' = DOMAIN baskets \cup {FormatUint(last'.out.id)}
               /\ \A id \in DOMAIN baskets : baskets'[id] = baskets[id]]_vars

\* Two baskets are stored, one created through each entry point (the keeper
\* stores the validator strings it was given raw).
C31_Witness ==
    \E id1 \in DOMAIN baskets, id2 \in DOMAIN baskets :
        /\ id1 # id2
        /\ baskets[id1].Validators[1].ValidatorAddress \in RawValAddrs
        /\ baskets[id2].Validators[1].ValidatorAddress \in ValAddrs

\* floor(amount / rate(b)): what a deposit of amount staked tokens buys.
SharesFor(b, amount) == (amount * OneDec) \div GetBasketExchangeRate(b)

C33_SelfConversionIsRejected ==
    /\ [](\A id \in BasketIdInputs :
            /\ \A msg \in ConvertBasketMsgs :
                  (msg.FromBasketId = id /\ msg.ToBasketId = id)
                    => Deliver(Ledger, ValidateBasicConvertBasket(msg),
                               MsgConvertBasket(Ledger, msg)).err # ""
            /\ \A sh \in KeeperShareInputs :
                  KeeperConvertBasketToBasket(Ledger, "u1", id, id, sh).err # "")
    /\ [][TookConvertBasket => last'.msg.FromBasketId # last'.msg.ToBasketId]_vars

\* ------------------------------------------------- genesis validation
\* ValidatePendingRedemption: the first error it meets, "" when there is
\* none.  time.Time.Before is strict.
ValidatePendingRedemption(redemption) ==
    IF redemption.Id = 0 THEN "redemption ID cannot be zero"
    ELSE IF redemption.BasketId = "" THEN "basket ID cannot be empty"
    ELSE IF redemption.Delegator = "" THEN "delegator address cannot be empty"
    ELSE IF ~AccAddressFromBech32OK(redemption.Delegator) THEN "invalid delegator address"
    ELSE IF redemption.SharesBurned <= 0 THEN "shares burned must be positive"
    ELSE IF redemption.TokensToReceive <= 0 THEN "tokens to receive must be positive"
    ELSE IF redemption.CompletionTime < redemption.CreationTime
    THEN "completion time must be after creation time"
    ELSE ""

\* The pending-redemption records validation is asked about: every
\* combination of a creation time and a completion time, around a record
\* that is well formed in every other field, and records that are not.
PendingRedemptionInputs ==
    {[Id |-> i, BasketId |-> "1", Delegator |-> d, SharesBurned |-> sb,
      TokensToReceive |-> tr, CompletionTime |-> ct, CreationTime |-> t] :
        i \in {0, 1}, d \in {"u1", "bad"}, sb \in {0, LegacyNewDecFromInt(1)},
        tr \in {0, 1}, ct \in 0..(MaxTime + UnbondingPeriod),
        t \in 0..(MaxTime + UnbondingPeriod)}

\* C34: ValidatePendingRedemption rejects every record whose completionTime
\* is not strictly later than its creationTime, a record whose completionTime
\* equals its creationTime included; the records asked about are the inputs
\* above and the records stored in the current state.
C34_CompletionMustFollowCreation ==
    \A r \in PendingRedemptionInputs \cup {pending[id] : id \in DOMAIN pending} :
        r.CompletionTime <= r.CreationTime => ValidatePendingRedemption(r) # ""

\* The validator loop of ValidateBasket over validators i..Len(vs): the first
\* error it meets, "" when there is none.  A weight is rejected when it is
\* negative.
RECURSIVE ValidateBasketValidators(_, _)
ValidateBasketValidators(vs, i) ==
    IF i > Len(vs) THEN ""
    ELSE IF vs[i].ValidatorAddress = "" THEN "validator address cannot be empty"
    ELSE IF \E j \in 1..(i - 1) : vs[j].ValidatorAddress = vs[i].ValidatorAddress
    THEN "duplicate validator address"
    ELSE IF ~ValAddressFromBech32OK(vs[i].ValidatorAddress) THEN "invalid validator address"
    ELSE IF vs[i].Weight < 0 THEN "validator weight must be positive"
    ELSE ValidateBasketValidators(vs, i + 1)

\* ValidateBasket: the weights must sum to exactly 1.
ValidateBasket(basket) ==
    IF basket.Id = "" THEN "basket ID cannot be empty"
    ELSE IF basket.Denom = "" THEN "basket denom cannot be empty"
    ELSE IF Len(basket.Validators) = 0 THEN "basket must have at least one validator"
    ELSE IF ~AccAddressFromBech32OK(basket.Creator) THEN "invalid creator address"
    ELSE IF ValidateBasketValidators(basket.Validators, 1) # ""
    THEN ValidateBasketValidators(basket.Validators, 1)
    ELSE IF TotalWeight(basket.Validators, 1) # OneDec
    THEN "validator weights must sum to 1.0"
    ELSE IF basket.TotalShares < 0 THEN "total shares must be non-negative"
    ELSE IF basket.TotalStakedTokens < 0 THEN "total staked tokens must be non-negative"
    ELSE ""

\* The validator lists validation is asked about: every list of up to two
\* entries over well-formed addresses and over weights that are negative,
\* zero, a half, a half plus less than the tolerance, and one.
WeightInputs ==
    {0 - OneDec \div 2, 0, OneDec \div 2, OneDec \div 2 + WeightTolerance \div 2, OneDec}

ValidatorListInputs ==
    {<< >>}
      \cup {<<VW(a, w)>> : a \in {"v1", "v2"}, w \in WeightInputs}
      \cup {<<VW(a1, w1), VW(a2, w2)>> :
              a1 \in {"v1", "v2"}, a2 \in {"v1", "v2"},
              w1 \in WeightInputs, w2 \in WeightInputs}

\* The basket a creation with the validator list vs stores, as genesis
\* validation sees it.
BasketWith(vs) ==
    [Id |-> "1", Denom |-> GetBasketTokenDenom("1"), Validators |-> vs, TotalShares |-> 0,
     TotalStakedTokens |-> 0, Creator |-> "u1", CreationTime |-> 0,
     Metadata |-> MetadataInput]

\* C35: genesis validation (ValidateBasket) and message validation
\* (MsgCreateBasket.ValidateBasic) accept the same validator lists: a list is
\* accepted by one iff it is accepted by the other, namely iff it is
\* non-empty, has pairwise distinct addresses, has strictly positive weights
\* and weights that sum to 1 within the tolerance; hence every stored basket
\* is accepted when re-imported.
C35_GenesisAndMessageValidationAgree ==
    /\ \A vs \in ValidatorListInputs \cup ValidatorSetInputs :
          LET byMessage == ValidateBasicCreateBasket(
                               [Creator |-> "u1", Validators |-> vs,
                                Metadata |-> MetadataInput]) = ""
              byGenesis == ValidateBasket(BasketWith(vs)) = ""
          IN  /\ byMessage <=> byGenesis
              /\ byMessage <=> ValidatorListWellFormed(vs)
    /\ \A id \in DOMAIN baskets : ValidateBasket(baskets[id]) = ""

\* ------------------------------------------------ the index listings
\* []byte(str): the bytes of the strings that are put into index keys (user
\* addresses and basket ids; "11" is the id of the eleventh basket).
StringBytes ==
    [u1 |-> <<117, 49>>, u2 |-> <<117, 50>>, bad |-> <<98, 97, 100>>] @@
    ("1" :> <<49>>) @@ ("2" :> <<50>>) @@ ("3" :> <<51>>) @@ ("11" :> <<49, 49>>)

\* binary.BigEndian.PutUint64 of an id below 256.
PutUint64(id) == <<0, 0, 0, 0, 0, 0, 0, id>>

\* sdk.BigEndianToUint64 of the bytes i..Len(bz), after the value acc of the
\* bytes before them.
RECURSIVE BigEndianToUint64(_, _, _)
BigEndianToUint64(bz, i, acc) ==
    IF i > Len(bz) THEN acc ELSE BigEndianToUint64(bz, i + 1, acc * 256 + bz[i])

\* Keeper.extractIDFromBytes
extractIDFromBytes(bz) == IF Len(bz) # 8 THEN 0 ELSE BigEndianToUint64(bz, 1, 0)

\* The prefix a listing iterates: index prefix byte, the name, "/".
IndexPrefix(indexKey, name) == <<indexKey>> \o StringBytes[name] \o <<47>>

\* RedemptionByUserStoreKey (index byte 0x21) and RedemptionByBasketStoreKey
\* (index byte 0x22).
RedemptionByUserStoreKey(userAddr, id) == IndexPrefix(33, userAddr) \o PutUint64(id)

RedemptionByBasketStoreKey(basketID, id) == IndexPrefix(34, basketID) \o PutUint64(id)

\* Faulty variant of the prefix iterator's test: every key is taken.
HasPrefixAlways(key, prefix) == TRUE

\* What KVStorePrefixIterator tests: the key starts with the prefix.
HasPrefix(key, prefix) ==
    Len(key) >= Len(prefix) /\ SubSeq(key, 1, Len(prefix)) = prefix

\* The loop of both listings over the index keys: the ids of the keys under
\* the prefix whose remainder is 8 bytes long and whose record is found.
ListedIDs(s, keys, prefix) ==
    {extractIDFromBytes(SubSeq(key, Len(prefix) + 1, Len(key))) :
        key \in {k \in keys :
                    /\ HasPrefix(k, prefix)
                    /\ Len(k) - Len(prefix) = 8
                    /\ extractIDFromBytes(SubSeq(k, Len(prefix) + 1, Len(k)))
                         \in DOMAIN s.pending}}

\* Keeper.GetPendingRedemptionsByUser: in key order, which under one prefix
\* is ascending id.
GetPendingRedemptionsByUser(s, userAddr) ==
    PendingInKeyOrder(s,
        ListedIDs(s, {RedemptionByUserStoreKey(e[1], e[2]) : e \in s.redByUser},
                  IndexPrefix(33, userAddr)))

\* Keeper.GetPendingRedemptionsByBasket
GetPendingRedemptionsByBasket(s, basketID) ==
    PendingInKeyOrder(s,
        ListedIDs(s, {RedemptionByBasketStoreKey(e[1], e[2]) : e \in s.redByBasket},
                  IndexPrefix(34, basketID)))

\* The ledger with one more pending redemption stored: one of another user,
\* on the basket with id "11".
WithRedemptionOfBasket11(s) ==
    SetPendingRedemption(s,
        [Id |-> NextPendingIDValue(s), BasketId |-> "11", Delegator |-> "u2",
         SharesBurned |-> LegacyNewDecFromInt(1), TokensToReceive |-> 1,
         CompletionTime |-> UnbondingPeriod, CreationTime |-> 0])

\* The listing is exactly the records of wanted, each once.
ListsExactly(listing, wanted) ==
    /\ {listing[i] : i \in 1..Len(listing)} = wanted
    /\ Len(listing) = Cardinality(wanted)

\* C36: for every user u and basket b, listByUser(u) returns exactly the
\* stored pending redemptions whose delegator is u and listByBasket(b)
\* exactly those whose basketId is b, each once, none of another user and
\* none of a basket whose id has b as a prefix ("1" and "11"); in every
\* reachable state, and in that state with a redemption of another user on
\* basket "11" stored as well.
C36_ListingsReturnExactlyTheOwnRecords ==
    \A s \in {Ledger, WithRedemptionOfBasket11(Ledger)} :
        /\ \A u \in Users :
              ListsExactly(GetPendingRedemptionsByUser(s, u),
                           {s.pending[id] : id \in {i \in DOMAIN s.pending :
                                                       s.pending[i].Delegator = u}})
        /\ \A b \in BasketIds \cup {"11"} :
              ListsExactly(GetPendingRedemptionsByBasket(s, b),
                           {s.pending[id] : id \in {i \in DOMAIN s.pending :
                                                       s.pending[i].BasketId = b}})

\* A redemption is stored, and with the redemption on basket "11" besides it
\* the listing of basket "1" and that of basket "11" each have a record.
C36_Witness ==
    /\ \E id \in DOMAIN pending : pending[id].BasketId = "1" /\ pending[id].Delegator = "u1"
    /\ Len(GetPendingRedemptionsByBasket(WithRedemptionOfBasket11(Ledger), "1")) > 0
    /\ Len(GetPendingRedemptionsByBasket(WithRedemptionOfBasket11(Ledger), "11")) = 1
    /\ Len(GetPendingRedemptionsByUser(WithRedemptionOfBasket11(Ledger), "u2")) = 1

\* ------------------------------------------- the clock without the cap
\* The specification of the maturity claims: the block clock is not one of
\* the counted operations and advances as far as the completion time of the
\* latest redemption that can be created; creations, mints and redeems
\* happen up to block time MaxTime, and only the successful ones are steps (a
\* failed one is rolled back and leaves the ledger as it was); the maturity
\* sweep deletes a record once it is listed as mature.
MaxClock == MaxTime + UnbondingPeriod

\* The pending redemption id is stored and listMature returns it.
ListedMature(id) ==
    /\ id \in DOMAIN pending
    /\ \E i \in 1..Len(GetMaturePendingRedemptions(Ledger, now)) :
          GetMaturePendingRedemptions(Ledger, now)[i].Id = id

ClockAdvances ==
    /\ now < MaxClock
    /\ now' = now + 1
    /\ UNCHANGED <<ledgerVars, last, allocBasketIDs, allocPendingIDs, nops>>

LiveCreateBasket == now <= MaxTime /\ CreateBasket /\ last'.err = ""

LiveMintBasketToken == now <= MaxTime /\ MintBasketToken /\ last'.err = ""

LiveRedeemBasketToken == now <= MaxTime /\ RedeemBasketToken /\ last'.err = ""

SweepMature ==
    \E id \in DOMAIN pending :
        /\ ListedMature(id)
        /\ Step("DeletePendingRedemption", pending[id],
                [err |-> "", s |-> DeletePendingRedemption(Ledger, pending[id]),
                 out |-> NoOut])

NextLive ==
    \/ LiveCreateBasket
    \/ LiveMintBasketToken
    \/ LiveRedeemBasketToken
    \/ SweepMature
    \/ ClockAdvances

SpecLive == Init /\ [][NextLive]_vars /\ WF_vars(ClockAdvances)

\* The ids a pending redemption can get within the bounds.
PendingIdInputs == 1..MaxOps

\* C37: with a positive unbonding period and a block clock that keeps
\* advancing, a pending redemption is not in listMature at the moment it is
\* created, every stored pending redemption eventually appears in
\* listMature, and once it appears it remains in listMature in every later
\* state until it is deleted.
C37_RedemptionsMatureAndStayMature ==
    /\ [][Took("RedeemBasketToken")
            => /\ last'.out.id \in DOMAIN pending'
               /\ \A i \in 1..Len(GetMaturePendingRedemptions(Ledger', now')) :
                     GetMaturePendingRedemptions(Ledger', now')[i].Id # last'.out.id]_vars
    /\ \A id \in PendingIdInputs : (id \in DOMAIN pending) ~> ListedMature(id)
    /\ [][\A id \in PendingIdInputs :
             (ListedMature(id) /\ id \in DOMAIN pending') => ListedMature(id)']_vars

\* A stored pending redemption that listMature returns.
C37_Witness == \E id \in DOMAIN pending : ListedMature(id) /\ now > pending[id].CreationTime

\* A successful mint or redeem.
TookMintOrRedeem == Took("MintBasketToken") \/ Took("RedeemBasketToken")

\* C38: across successful mints and redeems on a basket, between two states
\* in which the basket's totalShares is positive, the exchange rate
\* totalStakedTokens / totalShares never decreases (the comparison is
\* cross-multiplied; in these steps the shares are whole numbers).
C38_RateNeverDecreases ==
    [][TookMintOrRedeem
         => LET id == last'.msg.BasketId
                S  == TruncateInt(baskets[id].TotalShares)
                T  == baskets[id].TotalStakedTokens
                S2 == TruncateInt(baskets'[id].TotalShares)
                T2 == baskets'[id].TotalStakedTokens
            IN  (S > 0 /\ S2 > 0) => T2 * S >= T * S2]_vars

\* C39: every successful MintBasketToken of a positive amount credits the
\* minter with a strictly positive number of basket tokens (a mint whose
\* floor(amount / rate) is zero does not take the deposit).
C39_MintCreditsPositiveAmount ==
    [][(Took("MintBasketToken") /\ last'.msg.Amount > 0)
         => LET denom == baskets[last'.msg.BasketId].Denom
                who   == last'.msg.Minter
            IN  /\ last'.out.shares > 0
                /\ bal'[who][denom] > bal[who][denom]]_vars

====
